---- MODULE Spec2Model ----
(***************************************************************************)
(* VeilCams: the durable assessment pipeline (temporal/workflows.ts), its  *)
(* activities (temporal/activities.ts), the audit session that keeps       *)
(* session.json (audit/audit-session.ts, audit/metrics-tracker.ts) and the *)
(* file-lock mutex (utils/concurrency.ts).                                 *)
(*                                                                         *)
(* These specifications share this module:                                 *)
(*   Spec       the workflow, its seven activities and session.json at the *)
(*              granularity of the audit calls' suspension points;         *)
(*   SpecMutex  SessionMutex.lock / unlock with the clock that decides the *)
(*              stale-lock branch;                                         *)
(*   SpecFlush  MetricsTracker.flushSync at the granularity of its file    *)
(*              system calls, with updaters in separate worker processes;  *)
(*   SpecRetry  one activity call under the workflow's retry policy;       *)
(*   SpecQuery  Spec with the getProgress query and its callers;           *)
(*   SpecParallel  one parallelLimit call;                                 *)
(*   SpecRate   one RateLimiter with its acquirers (FairSpecRate: with     *)
(*              fairness);                                                 *)
(*   SpecCred   testHost of the credential tester, called again in the     *)
(*              same worker process;                                       *)
(*   SpecFuzz   one runProtocolFuzzer call;                                *)
(*   SpecSocket one rtspOptions / rtspDescribe call (FairSpecSocket: with  *)
(*              its timers firing);                                        *)
(*   SpecDigest computeDigestAuth;                                         *)
(*   SpecCredList  buildCredentialList and the loop that consumes it;      *)
(*   SpecAudit  the audit logs of one session under activity retries;      *)
(*   SpecTester one runCredentialTester call over several hosts;           *)
(*   SpecStale  SessionMutex.lock with holders that die (FairSpecStale:    *)
(*              with fairness);                                            *)
(*   SpecDiscovery  one runDiscovery call;                                 *)
(*   SpecDiff   isAuthenticatedResponseDifferent;                          *)
(*   SpecHeartbeat  the heartbeat timer of one activity execution.         *)
(***************************************************************************)
EXTENDS Integers, Sequences, FiniteSets, TLC

VARIABLES
    \* ---- workflow (workflows.ts) ----
    wfpc,               \* position of veilcamsPipelineWorkflow
    state,              \* WorkflowState
    discoveryResult, fingerprints, credentialResult, cveResult,
    protocolResult, exploitationResult,      \* the workflow's locals
    reportInput,        \* the input of the latest runReportActivity call
    \* ---- activities (activities.ts) and their AuditSession ----
    act,                \* per activity: position, attempt, outcome
    metrics,            \* per activity: MetricsTracker.metrics (in memory)
                        \* between a reload and the flush that follows it
    sessionFile,        \* content of <outputDir>/session.json
    lockFile,           \* content of .session-lock/<sessionId>.lock
    lastWritten,        \* history: the status start/endModule flushed last
    \* ---- SessionMutex under a clock (utils/concurrency.ts) ----
    mpc,                \* per locker: position in lock() / critical section
    waited,             \* per locker in lock(): Date.now() - start
    sleepLeft,          \* per sleeping locker: time until its setTimeout fires
    held,               \* per locker in its critical section: time since
                        \* it created the lock file
    csOverrun,          \* history: a critical section lasted maxWaitMs or more
    \* ---- flushSync at file-system granularity (metrics-tracker.ts) ----
    fsDir,              \* directory: path -> inode (0: no such file)
    inodes,             \* inode -> content
    upc,                \* per updater: the audit call it is in and the
                        \* file-system step it is at
    ufd,                \* per updater: inodes of its open descriptors
    umetrics,           \* per updater: MetricsTracker.metrics (in memory)
    \* ---- one activity call under the retry policy (workflows.ts) ----
    ract,               \* the activity called
    rpc,                \* position of the call
    rattempt,           \* the attempt that runs or ran last
    rerr,               \* the error the last failed attempt threw
    rwf,                \* what the workflow did with the call's outcome
    \* ---- the getProgress query (workflows.ts) ----
    progress,           \* the WorkflowProgress record a caller holds
    \* ---- parallelLimit (utils/concurrency.ts) ----
    plpc,               \* position of the parallelLimit call
    tasks,              \* tasks.length
    concurrency,        \* the cap
    index,              \* the shared index
    workers,            \* per worker: position and currentIndex
    results,            \* the results array
    runs,               \* history: per task, how often it was called
    outcome,            \* history: per task, how its promise settled
    \* ---- RateLimiter (utils/concurrency.ts) ----
    rate,               \* requestsPerSecond of the constructed limiter
    tokens,             \* this.tokens, in tenths of a token
    sinceRefill,        \* Date.now() - this.lastRefill, in polling intervals
    apc,                \* per acquirer: position in acquire()
    completions,        \* history: acquire() completions at each of the
                        \* instants of the last second
    \* ---- testHost of the credential tester (modules/credential-tester.ts) ----
    thpc,               \* position of the testHost call
    host,               \* the device: what it answers to each request
    target,             \* the FingerprintResult of the device
    config,             \* credentials.max_attempts_per_host, protocols.rtsp
    nextCred,           \* the credential the for loop looks at next
    attempts,           \* let attempts
    foundValid,         \* let foundValid
    hostResults,        \* const results, the CredentialTestResult array
    baselineCache,      \* baselineCache.get(baseUrl)
    rtspUnauthCache,    \* rtspUnauthCache.get(ip:port:path)
    invocation,         \* history: the calls of testHost for this device
                        \* that the worker process has made
    \* ---- runProtocolFuzzer (modules/index.ts) ----
    fzpc,               \* position of the runProtocolFuzzer call
    fzTargets,          \* targets, the FingerprintResult array
    fzRtsp,             \* config.protocols.rtsp
    fzConcurrency,      \* config.rate_limiting.max_concurrent_hosts ?? 10
    rtspFuzzOwner,      \* the Map ip -> ip:port
    fzSettled,          \* the tasks whose fuzzHost call has returned
    rtspPasses,         \* history: per target, its RTSP fuzzing passes
    \* ---- rtspOptions / rtspDescribe (utils/network.ts) ----
    skFn,               \* the function called
    skAuth,             \* auth is given: the request carries Authorization
    statusLine,         \* the status code in the first line of data
    skValue,            \* what the promise was settled with
    promise,            \* the returned promise: pending, resolved, rejected
    settled,            \* let settled
    socket,             \* the net.Socket
    timer,              \* const timer
    bodyTimer,          \* let bodyTimer (rtspDescribe)
    chunks,             \* the data events so far
    headerComplete,     \* data.includes('\r\n\r\n')
    settlements,        \* history: the calls of resolve and reject
    \* ---- computeDigestAuth (utils/network.ts) ----
    dgParams,           \* params of the call
    dgHeader,           \* the fields of the returned header
    \* ---- buildCredentialList and the loop of testHost over it ----
    clpc,               \* position of testHost: idle, loop, testing, returned
    clInput,            \* target.vendor, config.credentials, the attempts
                        \* one credential takes (its protocols)
    creds,              \* const creds = buildCredentialList(target, config)
    clNext,             \* the index of the credential the loop is at
    clAttempts,         \* let attempts
    clFoundValid,       \* let foundValid
    tried,              \* history: the credentials tested, in order
    \* ---- the audit logs of one session (audit-session.ts, activities.ts) ----
    aupc,               \* position of the activity that is running
    auIndex,            \* the module the workflow has reached
    auRuns,             \* activity executions started so far
    activityAttempt,    \* per module: the attempts Temporal has started
    currentLogger,      \* AuditSession.currentLogger: the file it has open
    workflowLog,        \* content of <outputDir>/workflow.log, by line
    agentFiles,         \* content of agents/<module>_attempt_<n>.jsonl
    \* ---- runCredentialTester (modules/credential-tester.ts) ----
    rcpc,               \* position of runCredentialTester
    rcTargets,          \* targets: per host, what its device answers
    rcIndex,            \* parallelLimit: let index
    rcWorkers,          \* parallelLimit: per worker, the task it awaits
    rcSettled,          \* parallelLimit: results, per task
    allResults,         \* const allResults
    hostsCompromised,   \* const hostsCompromised
    moduleResult,       \* the value returned, or the error thrown
    \* ---- SessionMutex with holders that die (utils/concurrency.ts) ----
    lockCalls,          \* per locker: the lock() calls it has made
    \* ---- runDiscovery (modules/discovery.ts) ----
    dpc,                \* position of runDiscovery
    dTargets,           \* targets, with what the network answers for each
    targetsScanned,     \* let targetsScanned
    allHosts,           \* const allHosts
    probes,             \* history: the TCP connects made, per target
    discovered,         \* the value returned, or the error thrown
    \* ---- isAuthenticatedResponseDifferent (credential-tester.ts) ----
    dfBaseline,         \* the argument baseline
    dfAuthed,           \* the argument authed
    dfResult,           \* the value returned
    \* ---- the heartbeat timer of an activity (temporal/activities.ts) ----
    hbpc,               \* position of the activity function
    hbActivity,         \* the activity that runs
    hbTimer,            \* the interval of startHeartbeat is armed
    hbBeats,            \* heartbeats emitted while the activity runs
    lateBeats           \* heartbeats emitted after the activity has ended

wfVars == <<wfpc, state, discoveryResult, fingerprints, credentialResult,
            cveResult, protocolResult, exploitationResult, reportInput,
            act, metrics, sessionFile, lastWritten>>

mutexVars == <<mpc, waited, sleepLeft, held, csOverrun>>

flushVars == <<fsDir, inodes, upc, ufd, umetrics>>

\* the workflow's variables but its WorkflowState
wfRest == <<wfpc, discoveryResult, fingerprints, credentialResult, cveResult,
            protocolResult, exploitationResult, reportInput, act, metrics,
            sessionFile, lastWritten>>

retryVars == <<ract, rpc, rattempt, rerr, rwf>>

queryVars == <<progress>>

parallelVars == <<plpc, tasks, concurrency, index, workers, results, runs, outcome>>

rateVars == <<rate, tokens, sinceRefill, apc, completions>>

credVars == <<thpc, host, target, config, nextCred, attempts, foundValid,
              hostResults, baselineCache, rtspUnauthCache, invocation>>

fuzzVars == <<fzpc, fzTargets, fzRtsp, fzConcurrency, rtspFuzzOwner, fzSettled,
              rtspPasses>>

socketVars == <<skFn, skAuth, statusLine, skValue, promise, settled, socket, timer, bodyTimer, chunks,
                headerComplete, settlements>>

digestVars == <<dgParams, dgHeader>>

listVars == <<clpc, clInput, creds, clNext, clAttempts, clFoundValid, tried>>

auditVars == <<aupc, auIndex, auRuns, activityAttempt, currentLogger,
               workflowLog, agentFiles>>

testerVars == <<rcpc, rcTargets, rcIndex, rcWorkers, rcSettled, allResults,
                hostsCompromised, moduleResult>>

staleVars == <<lockCalls>>

discoveryVars == <<dpc, dTargets, targetsScanned, allHosts, probes,
                   discovered>>

diffVars == <<dfBaseline, dfAuthed, dfResult>>

heartbeatVars == <<hbpc, hbActivity, hbTimer, hbBeats, lateBeats>>

vars == <<wfVars, lockFile, mutexVars, flushVars, retryVars, queryVars,
          parallelVars, rateVars, credVars, fuzzVars, socketVars, digestVars,
          listVars, auditVars, testerVars, staleVars, discoveryVars, diffVars, heartbeatVars>>

\* what the actions of each specification leave alone
nonWfVars ==
    <<mutexVars, flushVars, retryVars, queryVars, parallelVars, rateVars, credVars,
      fuzzVars, socketVars, digestVars, listVars,
      auditVars,
      testerVars,
      staleVars,
      discoveryVars,
      diffVars,
      heartbeatVars>>
nonMutexVars ==
    <<wfVars, flushVars, retryVars, queryVars, parallelVars, rateVars, credVars,
      fuzzVars, socketVars, digestVars, listVars,
      auditVars,
      testerVars,
      staleVars,
      discoveryVars,
      diffVars,
      heartbeatVars>>
nonFlushVars ==
    <<wfVars, mutexVars, retryVars, queryVars, parallelVars, rateVars, credVars,
      fuzzVars, socketVars, digestVars, listVars,
      auditVars,
      testerVars,
      staleVars,
      discoveryVars,
      diffVars,
      heartbeatVars>>
nonRetryVars ==
    <<wfVars, lockFile, mutexVars, flushVars, queryVars, parallelVars, rateVars, credVars,
      fuzzVars, socketVars, digestVars, listVars,
      auditVars,
      testerVars,
      staleVars,
      discoveryVars,
      diffVars,
      heartbeatVars>>
nonQueryVars ==
    <<wfRest, lockFile, mutexVars, flushVars, retryVars, parallelVars, rateVars, credVars,
      fuzzVars, socketVars, digestVars, listVars,
      auditVars,
      testerVars,
      staleVars,
      discoveryVars,
      diffVars,
      heartbeatVars>>
nonRateVars ==
    <<wfVars, lockFile, mutexVars, flushVars, retryVars, queryVars, parallelVars,
      credVars,
      fuzzVars, socketVars, digestVars, listVars,
      auditVars,
      testerVars,
      staleVars,
      discoveryVars,
      diffVars,
      heartbeatVars>>
nonParallelVars ==
    <<wfVars, lockFile, mutexVars, flushVars, retryVars, queryVars, rateVars,
      credVars,
      fuzzVars, socketVars, digestVars, listVars,
      auditVars,
      testerVars,
      staleVars,
      discoveryVars,
      diffVars,
      heartbeatVars>>
nonFuzzVars ==
    <<wfVars, lockFile, mutexVars, flushVars, retryVars, queryVars,
      parallelVars, rateVars, credVars, socketVars, digestVars, listVars,
      auditVars,
      testerVars,
      staleVars,
      discoveryVars,
      diffVars,
      heartbeatVars>>
nonSocketVars ==
    <<wfVars, lockFile, mutexVars, flushVars, retryVars, queryVars,
      parallelVars, rateVars, credVars, fuzzVars, digestVars, listVars,
      auditVars,
      testerVars,
      staleVars,
      discoveryVars,
      diffVars,
      heartbeatVars>>
nonDigestVars ==
    <<wfVars, lockFile, mutexVars, flushVars, retryVars, queryVars,
      parallelVars, rateVars, credVars, fuzzVars, socketVars, listVars,
      auditVars,
      testerVars,
      staleVars,
      discoveryVars,
      diffVars,
      heartbeatVars>>
nonListVars ==
    <<wfVars, lockFile, mutexVars, flushVars, retryVars, queryVars,
      parallelVars, rateVars, credVars, fuzzVars, socketVars, digestVars,
      auditVars,
      testerVars,
      staleVars,
      discoveryVars,
      diffVars,
      heartbeatVars>>
nonAuditVars ==
    <<wfVars, lockFile, mutexVars, flushVars, retryVars, queryVars,
      parallelVars, rateVars, credVars, fuzzVars, socketVars, digestVars,
      listVars,
      testerVars,
      staleVars,
      discoveryVars,
      diffVars,
      heartbeatVars>>
nonTesterVars ==
    <<wfVars, lockFile, mutexVars, flushVars, retryVars, queryVars,
      parallelVars, rateVars, credVars, fuzzVars, socketVars, digestVars, listVars, auditVars,
      staleVars,
      discoveryVars,
      diffVars,
      heartbeatVars>>
nonStaleVars ==
    <<wfVars, lockFile, mutexVars, flushVars, retryVars, queryVars,
      parallelVars, rateVars, credVars, fuzzVars, socketVars, digestVars, listVars, auditVars, testerVars,
      discoveryVars,
      diffVars,
      heartbeatVars>>
nonDiscoveryVars ==
    <<wfVars, lockFile, mutexVars, flushVars, retryVars, queryVars,
      parallelVars, rateVars, credVars, fuzzVars, socketVars, digestVars, listVars, auditVars, testerVars, staleVars,
      diffVars,
      heartbeatVars>>
nonDiffVars ==
    <<wfVars, lockFile, mutexVars, flushVars, retryVars, queryVars,
      parallelVars, rateVars, credVars, fuzzVars, socketVars, digestVars, listVars, auditVars, testerVars, staleVars, discoveryVars,
      heartbeatVars>>
nonHeartbeatVars ==
    <<wfVars, lockFile, mutexVars, flushVars, retryVars, queryVars,
      parallelVars, rateVars, credVars, fuzzVars, socketVars, digestVars, listVars, auditVars, testerVars, staleVars, discoveryVars, diffVars>>
nonCredVars ==
    <<wfVars, lockFile, mutexVars, flushVars, retryVars, queryVars,
      parallelVars, rateVars,
      fuzzVars, socketVars, digestVars, listVars,
      auditVars,
      testerVars,
      staleVars,
      discoveryVars,
      diffVars,
      heartbeatVars>>

(***************************************************************************)
(* Bounds                                                                  *)
(***************************************************************************)
\* discoveryResult.hosts.length ranges over 0..MaxHosts
MaxHosts == 1
\* every counter of a module result ranges over 0..MaxCount
MaxCount == 1

\* SpecParallel: parallelLimit is called with 0..MaxTasks tasks and a cap
\* of 0..MaxCap
MaxTasks == 3
MaxCap == 3

\* SpecRate: the limiter is constructed with a rate of 0..MaxRate
MaxRate == 3

\* SpecCred: buildCredentialList returns MaxCreds credentials, and
\* credentials.max_attempts_per_host ranges over 1..MaxAttempts
MaxCreds == 2
MaxAttempts == 3
\* SpecCred: one worker process calls testHost for the same device up to
\* MaxInvocations times (retried attempts, later sessions)
MaxInvocations == 2

\* SpecFuzz: runProtocolFuzzer is called with 0..MaxTargets fingerprint
\* records
MaxTargets == 3

\* SpecSocket: the socket delivers up to MaxChunks data events
MaxChunks == 3

\* SpecCredList: credentials.custom holds up to MaxCustom credentials
MaxCustom == 2
\* the heartbeats counted in one phase of an activity
MaxBeats == 2
\* the targets of one discovery run
MaxScans == 2
\* the lock() calls one process makes
MaxLocks == 1
\* the activity executions (first attempts and retries) of one session
MaxRuns == 4

\* SpecMutex: time is counted in retry intervals, and the stale-lock wait
\* (maxWaitMs / retryIntervalMs = 200 intervals in the source) is scaled down
\* to MaxWait intervals
MaxWait == 2

(***************************************************************************)
(* Data                                                                    *)
(***************************************************************************)
Activities ==
    {"discovery", "fingerprint", "credential-tester", "cve-scanner",
     "protocol-fuzzer", "exploitation", "report"}

TestingActivities == {"credential-tester", "cve-scanner", "protocol-fuzzer"}

NoResult == [undefined |-> TRUE]

\* Module results are kept to the fields the workflow and the activities read:
\* hosts.length, fingerprints.length, successfulLogins, vulnerabilitiesFound,
\* findingsCount, successfulExploits.
ZeroCredentialResult == [successfulLogins |-> 0]
ZeroCveResult == [vulnerabilitiesFound |-> 0]
ZeroProtocolResult == [findingsCount |-> 0]
ZeroExploitationResult == [successfulExploits |-> 0]

\* The values a module can return, by activity.
ModuleResults(a) ==
    CASE a = "discovery" -> {[hosts |-> n] : n \in 0..MaxHosts}
      [] a = "fingerprint" -> {[length |-> n] : n \in 0..discoveryResult.hosts}
      [] a = "credential-tester" -> {[successfulLogins |-> n] : n \in 0..MaxCount}
      [] a = "cve-scanner" -> {[vulnerabilitiesFound |-> n] : n \in 0..MaxCount}
      [] a = "protocol-fuzzer" -> {[findingsCount |-> n] : n \in 0..MaxCount}
      [] a = "exploitation" -> {[successfulExploits |-> n] : n \in 0..MaxCount}
      [] a = "report" -> {[report |-> "markdown"]}

\* A ModuleMetrics record of SessionMetrics.modules; status "absent" stands
\* for a key that is not in the map.
NoModule == [status |-> "absent", attempt |-> 0]

NoSummary == [undefined |-> TRUE]

\* MetricsTracker's constructor: the metrics a new tracker holds.
FreshMetrics ==
    [status |-> "running",
     modules |-> [m \in Activities |-> NoModule],
     summary |-> NoSummary]

\* session.json does not exist
NoFile == [absent |-> TRUE]

IdleActivity == [pc |-> "idle", success |-> FALSE, value |-> NoResult]

(***************************************************************************)
(* MetricsTracker: the in-memory operations (metrics-tracker.ts)           *)
(***************************************************************************)
\* reload(): the file's content replaces the metrics when the file exists
Reload(m, file) == IF file = NoFile THEN m ELSE file

\* startModule(moduleName, attempt): the module's record is replaced
MetricsStartModule(m, moduleName, attempt) ==
    [m EXCEPT !.modules[moduleName] = [status |-> "running", attempt |-> attempt]]

\* endModule returns before any write when the module has no record
EndModuleWrites(m, moduleName) == m.modules[moduleName].status # "absent"

\* endModule(moduleName, success): the status of an existing record
MetricsEndModule(m, moduleName, success) ==
    IF EndModuleWrites(m, moduleName)
    THEN [m EXCEPT !.modules[moduleName].status =
                        IF success THEN "completed" ELSE "failed"]
    ELSE m

\* a finalize that records the summary and leaves the status as it was
MetricsFinalizeKeepsStatus(m, summary) == [m EXCEPT !.summary = summary]

\* finalize(summary)
MetricsFinalize(m, summary) ==
    [m EXCEPT !.status = "completed", !.summary = summary]

\* markFailed(error): no activity and no workflow step calls it
MetricsMarkFailed(m) == [m EXCEPT !.status = "failed"]

\* the summary runReportActivity hands to finalize
ReportSummary(input) ==
    [hostsScanned |-> input.discoveryResult.hosts,
     hostsIdentified |-> input.fingerprints.length,
     credentialsFound |-> input.credentialResult.successfulLogins,
     vulnerabilitiesFound |-> input.cveResult.vulnerabilitiesFound,
     protocolFindings |-> input.protocolResult.findingsCount,
     exploitsSuccessful |->
        IF input.exploitationResult = NoResult THEN 0
        ELSE input.exploitationResult.successfulExploits]

(***************************************************************************)
(* Activities (activities.ts). Every activity is                           *)
(*   new AuditSession; initialize; startModule; <module>; endModule;       *)
(*   [report: finalize]; return or rethrow                                 *)
(* and every locked AuditSession call suspends after lock() and after      *)
(* reload(), before the synchronous mutate-flush-unlock.                   *)
(* In this specification a waiter finds the lock free before its own wait  *)
(* passes maxWaitMs; the stale branch of lock() is SpecMutex's subject.    *)
(* A tracker's in-memory metrics are read only after a reload, and         *)
(* session.json exists from the first initialize on, so the copy a tracker *)
(* keeps after its flush is never read: metrics[a] holds the reloaded      *)
(* document from the reload to the flush and the constructor's value       *)
(* otherwise.                                                              *)
(***************************************************************************)
SetPc(a, pc) == [act EXCEPT ![a].pc = pc]

\* Temporal starts (or starts again) the activity function
Schedule(a) ==
    [act EXCEPT ![a] = [pc |-> "initialize", success |-> FALSE,
                        value |-> NoResult]]

Settled(a) == act[a].pc \in {"resolved", "rejected"}

Invoked(a) == act[a].pc # "idle"

\* new AuditSession(...); await audit.initialize(): the new tracker's
\* metrics are flushed over session.json, without lock and without reload
ActInitialize(a) ==
    /\ act[a].pc = "initialize"
    /\ metrics' = [metrics EXCEPT ![a] = FreshMetrics]
    /\ sessionFile' = FreshMetrics
    /\ act' = SetPc(a, "start_lock")
    /\ UNCHANGED <<wfpc, state, discoveryResult, fingerprints, credentialResult,
                   cveResult, protocolResult, exploitationResult, reportInput,
                   lockFile, lastWritten, nonWfVars>>

\* const unlock = await this.mutex.lock(...); await metricsTracker.reload():
\* the exclusive create succeeds when no lock file exists, and the reload
\* that follows reads session.json. (No step of another activity that can
\* run between the two reads or writes what the other one does, so they are
\* one step.)
ActLockReload(a) ==
    /\ act[a].pc \in {"start_lock", "end_lock", "fin_lock"}
    /\ lockFile = "none"
    /\ lockFile' = a
    /\ metrics' = [metrics EXCEPT ![a] = Reload(metrics[a], sessionFile)]
    /\ act' = SetPc(a, CASE act[a].pc = "start_lock" -> "start_write"
                         [] act[a].pc = "end_lock" -> "end_write"
                         [] act[a].pc = "fin_lock" -> "fin_write")
    /\ UNCHANGED <<wfpc, state, discoveryResult, fingerprints, credentialResult,
                   cveResult, protocolResult, exploitationResult, reportInput,
                   sessionFile, lastWritten, nonWfVars>>

\* metricsTracker.startModule(name, 1) with its flush, then unlock()
ActStartModule(a) ==
    /\ act[a].pc = "start_write"
    /\ sessionFile' = MetricsStartModule(metrics[a], a, 1)
    /\ lastWritten' = [lastWritten EXCEPT ![a] = "running"]
    /\ metrics' = [metrics EXCEPT ![a] = FreshMetrics]
    /\ lockFile' = "none"
    /\ act' = SetPc(a, "module")
    /\ UNCHANGED <<wfpc, state, discoveryResult, fingerprints, credentialResult,
                   cveResult, protocolResult, exploitationResult, reportInput,
                   nonWfVars>>

\* the module function returns a result
ActModuleReturns(a) ==
    /\ act[a].pc = "module"
    /\ \E r \in ModuleResults(a) :
        act' = [act EXCEPT ![a].pc = "end_lock", ![a].success = TRUE,
                           ![a].value = r]
    /\ UNCHANGED <<wfpc, state, discoveryResult, fingerprints, credentialResult,
                   cveResult, protocolResult, exploitationResult, reportInput,
                   metrics, sessionFile, lockFile, lastWritten, nonWfVars>>

\* the module function (or the configuration loading before it) throws
ActModuleThrows(a) ==
    /\ act[a].pc = "module"
    /\ act' = [act EXCEPT ![a].pc = "end_lock", ![a].success = FALSE]
    /\ UNCHANGED <<wfpc, state, discoveryResult, fingerprints, credentialResult,
                   cveResult, protocolResult, exploitationResult, reportInput,
                   metrics, sessionFile, lockFile, lastWritten, nonWfVars>>

\* metricsTracker.endModule(name, success) with its flush (none when the
\* reloaded metrics hold no record of the module), then unlock(); then the
\* activity returns, goes on to finalize (report) or rethrows
ActEndModule(a) ==
    /\ act[a].pc = "end_write"
    /\ IF EndModuleWrites(metrics[a], a)
       THEN /\ sessionFile' = MetricsEndModule(metrics[a], a, act[a].success)
            /\ lastWritten' = [lastWritten EXCEPT ![a] =
                                IF act[a].success THEN "completed" ELSE "failed"]
       ELSE UNCHANGED <<sessionFile, lastWritten>>
    /\ metrics' = [metrics EXCEPT ![a] = FreshMetrics]
    /\ lockFile' = "none"
    /\ act' = SetPc(a, IF ~act[a].success THEN "thrown"
                       ELSE IF a = "report" THEN "fin_lock" ELSE "resolved")
    /\ UNCHANGED <<wfpc, state, discoveryResult, fingerprints, credentialResult,
                   cveResult, protocolResult, exploitationResult, reportInput,
                   nonWfVars>>

\* runReportActivity: metricsTracker.finalize(summary) with its flush, unlock()
ActFinalize(a) ==
    /\ a = "report"
    /\ act[a].pc = "fin_write"
    /\ sessionFile' = MetricsFinalize(metrics[a], ReportSummary(reportInput))
    /\ metrics' = [metrics EXCEPT ![a] = FreshMetrics]
    /\ lockFile' = "none"
    /\ act' = SetPc(a, "resolved")
    /\ UNCHANGED <<wfpc, state, discoveryResult, fingerprints, credentialResult,
                   cveResult, protocolResult, exploitationResult, reportInput,
                   lastWritten, nonWfVars>>

\* the retry policy runs a failed activity again, from its first line. The
\* attempts are not counted (maximumAttempts: 10): a failure may be retried
\* or be final at any attempt, see ActReject
ActRetry(a) ==
    /\ act[a].pc = "thrown"
    /\ act' = Schedule(a)
    /\ UNCHANGED <<wfpc, state, discoveryResult, fingerprints, credentialResult,
                   cveResult, protocolResult, exploitationResult, reportInput,
                   metrics, sessionFile, lockFile, lastWritten, nonWfVars>>

\* the failure is final (a non-retryable kind, or the attempts are used up):
\* the activity's promise rejects
ActReject(a) ==
    /\ act[a].pc = "thrown"
    /\ act' = SetPc(a, "rejected")
    /\ UNCHANGED <<wfpc, state, discoveryResult, fingerprints, credentialResult,
                   cveResult, protocolResult, exploitationResult, reportInput,
                   metrics, sessionFile, lockFile, lastWritten, nonWfVars>>

(***************************************************************************)
(* veilcamsPipelineWorkflow (workflows.ts). The workflow code between two  *)
(* awaits runs without interruption, so each action is one such stretch.   *)
(***************************************************************************)
InitialState ==
    [currentPhase |-> "discovery",
     currentModule |-> "null",
     completedModules |-> <<>>,
     failedModules |-> <<>>,
     moduleStatuses |-> [m \in Activities |-> "unset"]]

InSeq(seq, x) == \E i \in 1..Len(seq) : seq[i] = x

\* state.completedModules.push(m); state.moduleStatuses[m] = 'completed'
Completed(st, m) ==
    [st EXCEPT !.completedModules = Append(@, m),
               !.moduleStatuses[m] = "completed"]

\* state.failedModules.push(m); state.moduleStatuses[m] = 'failed'
Failed(st, m) ==
    [st EXCEPT !.failedModules = Append(@, m),
               !.moduleStatuses[m] = "failed"]

\* the phase header before an activity call
Phase(st, phase, module) ==
    [st EXCEPT !.currentPhase = phase, !.currentModule = module,
               !.moduleStatuses[module] = "running"]

\* Phase 1: the workflow sets the phase and calls runDiscoveryActivity
WfStartDiscovery ==
    /\ wfpc = "start"
    /\ state' = Phase(state, "discovery", "discovery")
    /\ act' = Schedule("discovery")
    /\ wfpc' = "awaitDiscovery"
    /\ UNCHANGED <<discoveryResult, fingerprints, credentialResult, cveResult,
                   protocolResult, exploitationResult, reportInput,
                   metrics, sessionFile, lockFile, lastWritten, nonWfVars>>

\* the input of the report call of the empty-discovery shortcut
EmptyReportInput(discovery) ==
    [discoveryResult |-> discovery,
     fingerprints |-> [length |-> 0],
     credentialResult |-> ZeroCredentialResult,
     cveResult |-> ZeroCveResult,
     protocolResult |-> ZeroProtocolResult,
     exploitationResult |-> NoResult]

\* discovery fulfilled: with no hosts the report activity is called at once
\* (no moduleStatuses entry for it), else Phase 2 starts
WfDiscoveryResolved ==
    /\ wfpc = "awaitDiscovery"
    /\ act["discovery"].pc = "resolved"
    /\ discoveryResult' = act["discovery"].value
    /\ LET st == Completed(state, "discovery") IN
        IF discoveryResult'.hosts = 0
        THEN /\ state' = [st EXCEPT !.currentPhase = "reporting",
                                    !.currentModule = "report"]
             /\ reportInput' = EmptyReportInput(discoveryResult')
             /\ act' = Schedule("report")
             /\ wfpc' = "awaitEmptyReport"
        ELSE /\ state' = Phase(st, "fingerprinting", "fingerprint")
             /\ act' = Schedule("fingerprint")
             /\ wfpc' = "awaitFingerprint"
             /\ UNCHANGED reportInput
    /\ UNCHANGED <<fingerprints, credentialResult, cveResult, protocolResult,
                   exploitationResult, metrics, sessionFile, lockFile, lastWritten, nonWfVars>>

\* discovery rejected: ApplicationFailure.nonRetryable(..., 'DiscoveryError')
WfDiscoveryRejected ==
    /\ wfpc = "awaitDiscovery"
    /\ act["discovery"].pc = "rejected"
    /\ state' = Failed(state, "discovery")
    /\ wfpc' = "failed"
    /\ UNCHANGED <<discoveryResult, fingerprints, credentialResult, cveResult,
                   protocolResult, exploitationResult, reportInput, act,
                   metrics, sessionFile, lockFile, lastWritten, nonWfVars>>

\* the shortcut's report call is awaited outside any try: the workflow
\* returns when it fulfils and fails with its error when it rejects
WfEmptyReportSettled ==
    /\ wfpc = "awaitEmptyReport"
    /\ Settled("report")
    /\ wfpc' = IF act["report"].pc = "resolved" THEN "completed" ELSE "failed"
    /\ UNCHANGED <<state, discoveryResult, fingerprints, credentialResult,
                   cveResult, protocolResult, exploitationResult, reportInput,
                   act, metrics, sessionFile, lockFile, lastWritten, nonWfVars>>

\* fingerprinting fulfilled: Phase 3 starts the three testing activities
WfFingerprintResolved ==
    /\ wfpc = "awaitFingerprint"
    /\ act["fingerprint"].pc = "resolved"
    /\ fingerprints' = act["fingerprint"].value
    /\ state' = [Completed(state, "fingerprint") EXCEPT
                    !.currentPhase = "testing",
                    !.currentModule = "null",
                    !.moduleStatuses["credential-tester"] = "running",
                    !.moduleStatuses["cve-scanner"] = "running",
                    !.moduleStatuses["protocol-fuzzer"] = "running"]
    /\ act' = [a \in Activities |->
                IF a \in TestingActivities THEN Schedule(a)[a] ELSE act[a]]
    /\ wfpc' = "awaitTesting"
    /\ UNCHANGED <<discoveryResult, credentialResult, cveResult, protocolResult,
                   exploitationResult, reportInput, metrics, sessionFile,
                   lockFile, lastWritten, nonWfVars>>

\* fingerprinting rejected: ApplicationFailure.nonRetryable(..., 'FingerprintError')
WfFingerprintRejected ==
    /\ wfpc = "awaitFingerprint"
    /\ act["fingerprint"].pc = "rejected"
    /\ state' = Failed(state, "fingerprint")
    /\ wfpc' = "failed"
    /\ UNCHANGED <<discoveryResult, fingerprints, credentialResult, cveResult,
                   protocolResult, exploitationResult, reportInput, act,
                   metrics, sessionFile, lockFile, lastWritten, nonWfVars>>

\* a settled entry read as the zeroed result whatever its status
BranchResultZeroed(a, zero) == zero

\* one entry of Promise.allSettled: the value of a fulfilled branch, the
\* zeroed result of a rejected one
BranchResult(a, zero) ==
    IF act[a].pc = "resolved" THEN act[a].value ELSE zero

\* ... and its mark in the workflow state
BranchState(st, a) ==
    IF act[a].pc = "resolved" THEN Completed(st, a) ELSE Failed(st, a)

\* the input of the report call of Phase 4
ReportInput(expl) ==
    [discoveryResult |-> discoveryResult,
     fingerprints |-> fingerprints,
     credentialResult |-> credentialResult',
     cveResult |-> cveResult',
     protocolResult |-> protocolResult',
     exploitationResult |-> expl]

\* Phase 4 header and the runReportActivity call
InvokeReport(st, expl) ==
    /\ state' = Phase(st, "reporting", "report")
    /\ reportInput' = ReportInput(expl)
    /\ exploitationResult' = expl

\* a testing phase that goes on as soon as one branch has settled (a race
\* in place of allSettled), reading the unsettled branches as rejected
WfTestingSettledEarly ==
    /\ wfpc = "awaitTesting"
    /\ \E a \in TestingActivities : Settled(a)
    /\ credentialResult' = BranchResult("credential-tester", ZeroCredentialResult)
    /\ cveResult' = BranchResult("cve-scanner", ZeroCveResult)
    /\ protocolResult' = BranchResult("protocol-fuzzer", ZeroProtocolResult)
    /\ LET st == BranchState(BranchState(BranchState(state,
                    "credential-tester"), "cve-scanner"), "protocol-fuzzer") IN
        IF cveResult'.vulnerabilitiesFound > 0
        THEN /\ state' = Phase(st, "exploitation", "exploitation")
             /\ act' = Schedule("exploitation")
             /\ wfpc' = "awaitExploitation"
             /\ UNCHANGED <<reportInput, exploitationResult>>
        ELSE /\ InvokeReport([st EXCEPT !.moduleStatuses["exploitation"] = "skipped"],
                             NoResult)
             /\ act' = Schedule("report")
             /\ wfpc' = "awaitReport"
    /\ UNCHANGED <<discoveryResult, fingerprints, metrics, sessionFile,
                   lockFile, lastWritten, nonWfVars>>

\* a testing phase that calls exploitation when the CVE branch fulfilled,
\* whatever number of vulnerabilities it reports
WfTestingSettledExploitsAnyway ==
    /\ wfpc = "awaitTesting"
    /\ \A a \in TestingActivities : Settled(a)
    /\ credentialResult' = BranchResult("credential-tester", ZeroCredentialResult)
    /\ cveResult' = BranchResult("cve-scanner", ZeroCveResult)
    /\ protocolResult' = BranchResult("protocol-fuzzer", ZeroProtocolResult)
    /\ LET st == BranchState(BranchState(BranchState(state,
                    "credential-tester"), "cve-scanner"), "protocol-fuzzer") IN
        IF act["cve-scanner"].pc = "resolved"
        THEN /\ state' = Phase(st, "exploitation", "exploitation")
             /\ act' = Schedule("exploitation")
             /\ wfpc' = "awaitExploitation"
             /\ UNCHANGED <<reportInput, exploitationResult>>
        ELSE /\ InvokeReport([st EXCEPT !.moduleStatuses["exploitation"] = "skipped"],
                             NoResult)
             /\ act' = Schedule("report")
             /\ wfpc' = "awaitReport"
    /\ UNCHANGED <<discoveryResult, fingerprints, metrics, sessionFile,
                   lockFile, lastWritten, nonWfVars>>

\* Promise.allSettled has settled: the three branches are processed, then
\* exploitation is called when the CVE result reports a vulnerability,
\* else it is marked skipped and the report activity is called
WfTestingSettled ==
    /\ wfpc = "awaitTesting"
    /\ \A a \in TestingActivities : Settled(a)
    /\ credentialResult' = BranchResult("credential-tester", ZeroCredentialResult)
    /\ cveResult' = BranchResult("cve-scanner", ZeroCveResult)
    /\ protocolResult' = BranchResult("protocol-fuzzer", ZeroProtocolResult)
    /\ LET st == BranchState(BranchState(BranchState(state,
                    "credential-tester"), "cve-scanner"), "protocol-fuzzer") IN
        IF cveResult'.vulnerabilitiesFound > 0
        THEN /\ state' = Phase(st, "exploitation", "exploitation")
             /\ act' = Schedule("exploitation")
             /\ wfpc' = "awaitExploitation"
             /\ UNCHANGED <<reportInput, exploitationResult>>
        ELSE /\ InvokeReport([st EXCEPT !.moduleStatuses["exploitation"] = "skipped"],
                             NoResult)
             /\ act' = Schedule("report")
             /\ wfpc' = "awaitReport"
    /\ UNCHANGED <<discoveryResult, fingerprints, metrics, sessionFile,
                   lockFile, lastWritten, nonWfVars>>

\* an exploitation call without its try/catch: a rejection fails the workflow
WfExploitationSettledRethrows ==
    /\ wfpc = "awaitExploitation"
    /\ Settled("exploitation")
    /\ UNCHANGED <<discoveryResult, fingerprints, credentialResult, cveResult,
                   protocolResult, metrics, sessionFile, lockFile, lastWritten,
                   nonWfVars>>
    /\ IF act["exploitation"].pc = "rejected"
       THEN /\ state' = Failed(state, "exploitation")
            /\ wfpc' = "failed"
            /\ UNCHANGED <<reportInput, exploitationResult, act>>
       ELSE /\ InvokeReport(BranchState(state, "exploitation"),
                            BranchResult("exploitation", ZeroExploitationResult))
            /\ act' = Schedule("report")
            /\ wfpc' = "awaitReport"

\* exploitation settled: its value, or the zeroed result when it rejected;
\* either way Phase 4 follows
WfExploitationSettled ==
    /\ wfpc = "awaitExploitation"
    /\ Settled("exploitation")
    /\ UNCHANGED <<discoveryResult, fingerprints, credentialResult, cveResult,
                   protocolResult, metrics, sessionFile, lockFile,
                   lastWritten, nonWfVars>>
    /\ InvokeReport(BranchState(state, "exploitation"),
                    BranchResult("exploitation", ZeroExploitationResult))
    /\ act' = Schedule("report")
    /\ wfpc' = "awaitReport"

\* the report of Phase 4 fulfilled: the workflow returns
WfReportResolved ==
    /\ wfpc = "awaitReport"
    /\ act["report"].pc = "resolved"
    /\ state' = Completed(state, "report")
    /\ wfpc' = "completed"
    /\ UNCHANGED <<discoveryResult, fingerprints, credentialResult, cveResult,
                   protocolResult, exploitationResult, reportInput, act,
                   metrics, sessionFile, lockFile, lastWritten, nonWfVars>>

\* the report of Phase 4 rejected: ApplicationFailure.nonRetryable(..., 'ReportError')
WfReportRejected ==
    /\ wfpc = "awaitReport"
    /\ act["report"].pc = "rejected"
    /\ state' = Failed(state, "report")
    /\ wfpc' = "failed"
    /\ UNCHANGED <<discoveryResult, fingerprints, credentialResult, cveResult,
                   protocolResult, exploitationResult, reportInput, act,
                   metrics, sessionFile, lockFile, lastWritten, nonWfVars>>

(***************************************************************************)
(* The processes of SpecMutex and SpecFlush, and their idle states         *)
(***************************************************************************)
Lockers == {"p1", "p2", "p3"}

Updaters == {"u1", "u2"}

\* inodes that can be in use at once: session.json, session.json.tmp and
\* the two descriptors copyFileSync holds in every updater
NInodes == 2 + 2 * Cardinality(Updaters)

\* an inode nobody refers to
Free == [free |-> TRUE]
\* the content of a file that was opened with O_TRUNC and not written yet
Truncated == [truncated |-> TRUE]
\* no open descriptor
NoFd == [src |-> 0, dst |-> 0]
\* an updater before its activity starts
UIdle == [phase |-> "idle", step |-> "none"]

MutexIdle ==
    /\ mpc = [p \in Lockers |-> "idle"]
    /\ waited = [p \in Lockers |-> 0]
    /\ sleepLeft = [p \in Lockers |-> 0]
    /\ held = [p \in Lockers |-> 0]
    /\ csOverrun = FALSE

FlushIdle ==
    /\ fsDir = [tmp |-> 0, session |-> 0]
    /\ inodes = [i \in 1..NInodes |-> Free]
    /\ upc = [u \in Updaters |-> UIdle]
    /\ ufd = [u \in Updaters |-> NoFd]
    /\ umetrics = [u \in Updaters |-> FreshMetrics]

\* no attempt has thrown
NoError == [name |-> "none", type |-> "none", message |-> {}]

RetryIdle ==
    /\ ract = "none"
    /\ rpc = "idle"
    /\ rattempt = 0
    /\ rerr = NoError
    /\ rwf = "running"

\* no caller holds a progress record
NoProgress == [none |-> TRUE]

QueryIdle == progress = NoProgress

Acquirers == {"a1", "a2"}

\* the polling intervals (setTimeout(resolve, 100)) of one second
TicksPerSecond == 10

RateIdle ==
    /\ rate = 0
    /\ tokens = 0
    /\ sinceRefill = 0
    /\ apc = [a \in Acquirers |-> "unborn"]
    /\ completions = [i \in 1..TicksPerSecond |-> 0]

NoHost == [reachable |-> FALSE]

NoTarget == [authType |-> "unknown", protocols |-> {}]

NoConfig == [max_attempts_per_host |-> 0, rtsp |-> FALSE]

NotCached == [cached |-> FALSE, value |-> FALSE, by |-> 0]

CredIdle ==
    /\ thpc = "idle"
    /\ host = NoHost
    /\ target = NoTarget
    /\ config = NoConfig
    /\ nextCred = 0
    /\ attempts = 0
    /\ foundValid = FALSE
    /\ hostResults = <<>>
    /\ baselineCache = NotCached
    /\ rtspUnauthCache = NotCached
    /\ invocation = 0

NoOwner == <<"", 0>>

FuzzIdle ==
    /\ fzpc = "idle"
    /\ fzTargets = <<>>
    /\ fzRtsp = FALSE
    /\ fzConcurrency = 0
    /\ rtspFuzzOwner = <<>>
    /\ fzSettled = {}
    /\ rtspPasses = <<>>

SocketIdle ==
    /\ skFn = "none"
    /\ skAuth = FALSE
    /\ statusLine = "none"
    /\ skValue = "none"
    /\ promise = "none"
    /\ settled = FALSE
    /\ socket = "none"
    /\ timer = "unset"
    /\ bodyTimer = "null"
    /\ chunks = 0
    /\ headerComplete = FALSE
    /\ settlements = 0

NoParams == [called |-> FALSE]

DigestIdle ==
    /\ dgParams = NoParams
    /\ dgHeader = NoParams

\* the modules whose activities write the logs, in the workflow's order
ModuleOrder == <<"discovery", "report">>
AuditModules == {ModuleOrder[i] : i \in DOMAIN ModuleOrder}
\* agents/<module>_attempt_<n>.jsonl
AgentFileNames == AuditModules \X (1..MaxRuns)
NoLogger == <<"", 0>>

AuditIdle ==
    /\ aupc = "idle"
    /\ auIndex = 1
    /\ auRuns = 0
    /\ activityAttempt = [m \in AuditModules |-> 0]
    /\ currentLogger = NoLogger
    /\ workflowLog = <<>>
    /\ agentFiles = [f \in AgentFileNames |-> <<>>]

TesterIdle ==
    /\ rcpc = "idle"
    /\ rcTargets = <<>>
    /\ rcIndex = 0
    /\ rcWorkers = <<>>
    /\ rcSettled = <<>>
    /\ allResults = <<>>
    /\ hostsCompromised = {}
    /\ moduleResult = NoParams

StaleIdle == lockCalls = [p \in Lockers |-> 0]

DiscoveryIdle ==
    /\ dpc = "idle"
    /\ dTargets = <<>>
    /\ targetsScanned = 0
    /\ allHosts = <<>>
    /\ probes = {}
    /\ discovered = NoParams

DiffIdle ==
    /\ dfBaseline = NoParams
    /\ dfAuthed = NoParams
    /\ dfResult = NoParams

HeartbeatIdle ==
    /\ hbpc = "idle"
    /\ hbActivity = "none"
    /\ hbTimer = FALSE
    /\ hbBeats = 0
    /\ lateBeats = 0

ListIdle ==
    /\ clpc = "idle"
    /\ clInput = NoParams
    /\ creds = <<>>
    /\ clNext = 0
    /\ clAttempts = 0
    /\ clFoundValid = FALSE
    /\ tried = <<>>

ParallelIdle ==
    /\ plpc = "idle"
    /\ tasks = 0
    /\ concurrency = 0
    /\ index = 0
    /\ workers = <<>>
    /\ results = <<>>
    /\ runs = <<>>
    /\ outcome = <<>>

WfIdle ==
    /\ wfpc = "start"
    /\ state = InitialState
    /\ discoveryResult = NoResult
    /\ fingerprints = NoResult
    /\ credentialResult = NoResult
    /\ cveResult = NoResult
    /\ protocolResult = NoResult
    /\ exploitationResult = NoResult
    /\ reportInput = NoResult
    /\ act = [a \in Activities |-> IdleActivity]
    /\ metrics = [a \in Activities |-> FreshMetrics]
    /\ sessionFile = NoFile
    /\ lastWritten = [a \in Activities |-> "none"]

(***************************************************************************)
(* Spec: one run of the workflow                                           *)
(***************************************************************************)
Init ==
    /\ WfIdle /\ lockFile = "none" /\ MutexIdle /\ FlushIdle /\ RetryIdle
    /\ QueryIdle /\ ParallelIdle /\ RateIdle /\ CredIdle /\ FuzzIdle
    /\ SocketIdle /\ DigestIdle /\ ListIdle /\ AuditIdle /\ TesterIdle /\ StaleIdle /\ DiscoveryIdle /\ DiffIdle /\ HeartbeatIdle

Next ==
    \/ WfStartDiscovery
    \/ WfDiscoveryResolved
    \/ WfDiscoveryRejected
    \/ WfEmptyReportSettled
    \/ WfFingerprintResolved
    \/ WfFingerprintRejected
    \/ WfTestingSettled
    \/ WfExploitationSettled
    \/ WfReportResolved
    \/ WfReportRejected
    \/ \E a \in Activities :
        \/ ActInitialize(a)
        \/ ActLockReload(a)
        \/ ActStartModule(a)
        \/ ActModuleReturns(a)
        \/ ActModuleThrows(a)
        \/ ActEndModule(a)
        \/ ActFinalize(a)
        \/ ActRetry(a)
        \/ ActReject(a)

Spec == Init /\ [][Next]_vars

(***************************************************************************)
(* SpecMutex: SessionMutex (utils/concurrency.ts) under a clock.           *)
(* Lockers call lock(), run a critical section and call the returned       *)
(* release function once, as AuditSession does, again and again. lockFile  *)
(* holds the pid the creator wrote, "none" when the file does not exist.   *)
(***************************************************************************)
\* retryIntervalMs, the unit of time
RetryInterval == 1

Min(x, y) == IF x <= y THEN x ELSE y

\* lock(sessionId) is called: const start = Date.now()
MLockCall(p) ==
    /\ mpc[p] = "idle"
    /\ waited' = [waited EXCEPT ![p] = 0]
    /\ mpc' = [mpc EXCEPT ![p] = "try"]
    /\ UNCHANGED <<lockFile, sleepLeft, held, csOverrun, nonMutexVars>>

\* writeFileSync(lockFile, pid, {flag: 'wx'}) succeeds: lock() returns the
\* release function
MTryCreate(p) ==
    /\ mpc[p] = "try"
    /\ lockFile = "none"
    /\ lockFile' = p
    /\ held' = [held EXCEPT ![p] = 0]
    /\ waited' = [waited EXCEPT ![p] = 0]
    /\ mpc' = [mpc EXCEPT ![p] = "cs"]
    /\ UNCHANGED <<sleepLeft, csOverrun, nonMutexVars>>

\* a lock() that never takes a lock for stale
StaleNever(p) == FALSE

\* Date.now() - start > this.maxWaitMs: the waiter's own waiting time
\* decides that the lock is stale
StaleByWait(p) == waited[p] > MaxWait

\* the create fails with EEXIST: past maxWaitMs of waiting the lock counts
\* as stale and is to be unlinked, else the waiter sleeps retryIntervalMs
MTryExists(p) ==
    /\ mpc[p] = "try"
    /\ lockFile # "none"
    /\ IF StaleByWait(p)
       THEN /\ mpc' = [mpc EXCEPT ![p] = "unlink"]
            /\ UNCHANGED sleepLeft
       ELSE /\ mpc' = [mpc EXCEPT ![p] = "sleep"]
            /\ sleepLeft' = [sleepLeft EXCEPT ![p] = RetryInterval]
    /\ UNCHANGED <<lockFile, waited, held, csOverrun, nonMutexVars>>

\* try { fs.unlinkSync(lockFile) } catch {}; continue
MUnlinkStale(p) ==
    /\ mpc[p] = "unlink"
    /\ lockFile' = "none"
    /\ mpc' = [mpc EXCEPT ![p] = "try"]
    /\ UNCHANGED <<waited, sleepLeft, held, csOverrun, nonMutexVars>>

\* the setTimeout of the retry fires
MWake(p) ==
    /\ mpc[p] = "sleep"
    /\ sleepLeft[p] = 0
    /\ mpc' = [mpc EXCEPT ![p] = "try"]
    /\ UNCHANGED <<lockFile, waited, sleepLeft, held, csOverrun, nonMutexVars>>

\* the release function: unlock(lockFile) unlinks whatever file is there
MUnlock(p) ==
    /\ mpc[p] = "cs"
    /\ lockFile' = "none"
    /\ held' = [held EXCEPT ![p] = 0]
    /\ mpc' = [mpc EXCEPT ![p] = "idle"]
    /\ UNCHANGED <<waited, sleepLeft, csOverrun, nonMutexVars>>

\* one retry interval passes (the counters stop where a larger value decides
\* nothing more); csOverrun records a critical section that has lasted the
\* stale-lock timeout or more
MTick ==
    /\ waited' = [p \in Lockers |->
                    IF mpc[p] \in {"try", "sleep", "unlink"}
                    THEN Min(waited[p] + 1, MaxWait + 1) ELSE waited[p]]
    /\ sleepLeft' = [p \in Lockers |->
                    IF sleepLeft[p] > 0 THEN sleepLeft[p] - 1 ELSE 0]
    /\ held' = [p \in Lockers |->
                    IF mpc[p] = "cs" THEN Min(held[p] + 1, MaxWait) ELSE held[p]]
    /\ csOverrun' = (csOverrun \/ \E p \in Lockers :
                        mpc[p] = "cs" /\ held'[p] >= MaxWait)
    /\ UNCHANGED <<lockFile, mpc, nonMutexVars>>

NextMutex ==
    \/ MTick
    \/ \E p \in Lockers :
        \/ MLockCall(p)
        \/ MTryCreate(p)
        \/ MTryExists(p)
        \/ MUnlinkStale(p)
        \/ MWake(p)
        \/ MUnlock(p)

SpecMutex == Init /\ [][NextMutex]_vars

InCriticalSection == {p \in Lockers : mpc[p] = "cs"}

\* C4: as long as every critical section has been shorter than the
\* stale-lock timeout, at most one locker is inside the critical section.
\* (Stated as the claim states it; lock() measures the waiter's own waiting
\* time, not the age of the lock, so a waiter that was kept out by a
\* succession of short critical sections removes a fresh lock.)
MutualExclusion ==
    ~csOverrun => Cardinality(InCriticalSection) <= 1

\* C5: a call of the release function made when the lock file is not the
\* caller's any more (it was reclaimed as stale, or released before) leaves
\* the lock file as it is; in particular it does not remove the lock of a
\* process that acquired it since. (Stated as the claim states it; unlock
\* unlinks the file whoever created it.)
ReleaseLeavesForeignLock ==
    [][\A p \in Lockers :
        (mpc[p] = "cs" /\ mpc'[p] = "idle" /\ lockFile # p) =>
            lockFile' = lockFile]_vars

(***************************************************************************)
(* SpecFlush: MetricsTracker.flushSync, one file-system call at a time     *)
(*                                                                         *)
(* Every updater is an activity in a worker process of its own: it calls   *)
(* AuditSession.initialize (a flush outside the lock), startModule and     *)
(* endModule (lock, reload, mutate, flush, unlock). The processes share    *)
(* the paths session.json and session.json.tmp. A process can crash at any *)
(* step. The lock is the lock file without its stale branch, which is      *)
(* SpecMutex's subject.                                                    *)
(***************************************************************************)
UModule(u) == IF u = "u1" THEN "credential-tester" ELSE "cve-scanner"

At(u, phase, step) == upc[u] = [phase |-> phase, step |-> step]

AtStep(u, step) == upc[u].phase \in {"init", "start", "end"} /\ upc[u].step = step

Goto(u, phase, step) == upc' = [upc EXCEPT ![u] = [phase |-> phase, step |-> step]]

Referenced(dir, fds) ==
    {dir.tmp, dir.session} \cup {fds[u].src : u \in Updaters}
                           \cup {fds[u].dst : u \in Updaters}

\* an inode lives as long as a path or an open descriptor refers to it
Collect(dir, fds, ino) ==
    [i \in 1..NInodes |-> IF i \in Referenced(dir, fds) THEN ino[i] ELSE Free]

FreeInode ==
    CHOOSE i \in 1..NInodes :
        /\ i \notin Referenced(fsDir, ufd)
        /\ \A j \in 1..(i - 1) : j \in Referenced(fsDir, ufd)

\* open(path, O_WRONLY | O_CREAT | O_TRUNC): the inode the path names, or
\* a new one
OpenTruncInode(path) == IF fsDir[path] # 0 THEN fsDir[path] ELSE FreeInode

\* where flushSync's caller continues: initialize is followed by
\* startModule, and a throw of initialize rejects the activity; inside
\* startModule / endModule the finally block unlocks either way
AfterFlush(u, ok) ==
    IF upc[u].phase = "init"
    THEN IF ok THEN Goto(u, "start", "lock") ELSE Goto(u, "done", "none")
    ELSE Goto(u, upc[u].phase, "unlock")

\* new AuditSession(...); audit.initialize(): the tracker of the activity
\* starts from the constructor's metrics and flushes them
UInitialize(u) ==
    /\ upc[u] = UIdle
    /\ umetrics' = [umetrics EXCEPT ![u] = FreshMetrics]
    /\ Goto(u, "init", "open")
    /\ UNCHANGED <<lockFile, fsDir, inodes, ufd, nonFlushVars>>

\* writeFileSync(tmpPath, ...), the open
FOpenTmp(u) ==
    /\ AtStep(u, "open")
    /\ LET i == OpenTruncInode("tmp")
       IN /\ fsDir' = [fsDir EXCEPT !.tmp = i]
          /\ ufd' = [ufd EXCEPT ![u].dst = i]
          /\ inodes' = [inodes EXCEPT ![i] = Truncated]
    /\ Goto(u, upc[u].phase, "write")
    /\ UNCHANGED <<lockFile, umetrics, nonFlushVars>>

\* writeFileSync(tmpPath, JSON.stringify(this.metrics)), the write and the
\* close
FWriteTmp(u) ==
    /\ AtStep(u, "write")
    /\ ufd' = [ufd EXCEPT ![u] = NoFd]
    /\ inodes' = Collect(fsDir, ufd',
                         [inodes EXCEPT ![ufd[u].dst] = umetrics[u]])
    /\ Goto(u, upc[u].phase, "rename")
    /\ UNCHANGED <<lockFile, fsDir, umetrics, nonFlushVars>>

\* fs.renameSync(tmpPath, this.filePath) succeeds
FRename(u) ==
    /\ AtStep(u, "rename")
    /\ fsDir.tmp # 0
    /\ fsDir' = [tmp |-> 0, session |-> fsDir.tmp]
    /\ inodes' = Collect(fsDir', ufd, inodes)
    /\ AfterFlush(u, TRUE)
    /\ UNCHANGED <<lockFile, ufd, umetrics, nonFlushVars>>

\* fs.renameSync throws: the tmp file is gone (ENOENT), or the target is
\* held open (the NTFS case of the source's comment); the catch block runs
FRenameFails(u) ==
    /\ AtStep(u, "rename")
    /\ Goto(u, upc[u].phase, "copyOpen")
    /\ UNCHANGED <<lockFile, fsDir, inodes, ufd, umetrics, nonFlushVars>>

\* fs.copyFileSync(tmpPath, this.filePath): the source is opened and the
\* destination is opened with O_TRUNC; without a source it throws
FCopyOpen(u) ==
    /\ AtStep(u, "copyOpen")
    /\ IF fsDir.tmp = 0
       THEN /\ AfterFlush(u, FALSE)
            /\ UNCHANGED <<fsDir, inodes, ufd>>
       ELSE LET i == OpenTruncInode("session")
            IN /\ fsDir' = [fsDir EXCEPT !.session = i]
               /\ ufd' = [ufd EXCEPT ![u] = [src |-> fsDir.tmp, dst |-> i]]
               /\ inodes' = [inodes EXCEPT ![i] = Truncated]
               /\ Goto(u, upc[u].phase, "copyWrite")
    /\ UNCHANGED <<lockFile, umetrics, nonFlushVars>>

\* fs.copyFileSync, the copy of the content and the closes
FCopyWrite(u) ==
    /\ AtStep(u, "copyWrite")
    /\ ufd' = [ufd EXCEPT ![u] = NoFd]
    /\ inodes' = Collect(fsDir, ufd',
                         [inodes EXCEPT ![ufd[u].dst] = inodes[ufd[u].src]])
    /\ Goto(u, upc[u].phase, "unlink")
    /\ UNCHANGED <<lockFile, fsDir, umetrics, nonFlushVars>>

\* fs.unlinkSync(tmpPath); it throws when the tmp file is gone
FUnlinkTmp(u) ==
    /\ AtStep(u, "unlink")
    /\ IF fsDir.tmp = 0
       THEN /\ AfterFlush(u, FALSE)
            /\ UNCHANGED <<fsDir, inodes>>
       ELSE /\ fsDir' = [fsDir EXCEPT !.tmp = 0]
            /\ inodes' = Collect(fsDir', ufd, inodes)
            /\ AfterFlush(u, TRUE)
    /\ UNCHANGED <<lockFile, ufd, umetrics, nonFlushVars>>

\* const unlock = await this.mutex.lock(this.sessionId)
ULock(u) ==
    /\ AtStep(u, "lock")
    /\ lockFile = "none"
    /\ lockFile' = u
    /\ Goto(u, upc[u].phase, "reload")
    /\ UNCHANGED <<fsDir, inodes, ufd, umetrics, nonFlushVars>>

\* what fs.readFileSync(this.filePath) returns
SessionJson == IF fsDir.session = 0 THEN NoFile ELSE inodes[fsDir.session]

\* await this.metricsTracker.reload() and the mutation in memory that
\* follows it: JSON.parse throws on a truncated file; tracker.endModule
\* returns without a flush when the module has no record
UReload(u) ==
    /\ AtStep(u, "reload")
    /\ IF SessionJson = Truncated
       THEN /\ Goto(u, upc[u].phase, "unlock")
            /\ UNCHANGED umetrics
       ELSE LET m == Reload(umetrics[u], SessionJson)
            IN IF upc[u].phase = "start"
               THEN /\ umetrics' = [umetrics EXCEPT
                                      ![u] = MetricsStartModule(m, UModule(u), 1)]
                    /\ Goto(u, "start", "open")
               ELSE IF EndModuleWrites(m, UModule(u))
                    THEN /\ \E success \in BOOLEAN :
                              umetrics' = [umetrics EXCEPT
                                  ![u] = MetricsEndModule(m, UModule(u), success)]
                         /\ Goto(u, "end", "open")
                    ELSE /\ umetrics' = [umetrics EXCEPT ![u] = m]
                         /\ Goto(u, "end", "unlock")
    /\ UNCHANGED <<lockFile, fsDir, inodes, ufd, nonFlushVars>>

\* finally { unlock() }: startModule is followed by endModule (by the
\* activity's catch block when startModule threw), endModule ends the
\* activity
UUnlock(u) ==
    /\ AtStep(u, "unlock")
    /\ lockFile' = "none"
    /\ IF upc[u].phase = "start"
       THEN Goto(u, "end", "lock")
       ELSE Goto(u, "done", "none")
    /\ UNCHANGED <<fsDir, inodes, ufd, umetrics, nonFlushVars>>

\* the worker process dies: its descriptors are closed, what it did to the
\* file system stays
UCrash(u) ==
    /\ upc[u].phase \in {"init", "start", "end"}
    /\ ufd' = [ufd EXCEPT ![u] = NoFd]
    /\ inodes' = Collect(fsDir, ufd', inodes)
    /\ Goto(u, "crashed", "none")
    /\ UNCHANGED <<lockFile, fsDir, umetrics, nonFlushVars>>

NextFlush ==
    \E u \in Updaters :
        \/ UInitialize(u)
        \/ FOpenTmp(u)
        \/ FWriteTmp(u)
        \/ FRename(u)
        \/ FRenameFails(u)
        \/ FCopyOpen(u)
        \/ FCopyWrite(u)
        \/ FUnlinkTmp(u)
        \/ ULock(u)
        \/ UReload(u)
        \/ UUnlock(u)
        \/ UCrash(u)

SpecFlush == Init /\ [][NextFlush]_vars

\* C3: whenever session.json exists, its content is a complete
\* SessionMetrics document: no state, whether between two file-system steps
\* of an update, after a crash, or during concurrent updates, shows a
\* reader a truncated or empty file. (Stated as the claim states it; the
\* tmp path is shared by all updaters and initialize flushes outside the
\* lock, and the copy fallback truncates session.json in place.)
SessionFileNeverTorn == SessionJson # Truncated

(***************************************************************************)
(* SpecRetry: one activity call under the proxyActivities retry policy.    *)
(* An attempt returns or throws; the activity's catch block rethrows the   *)
(* error object it caught; the policy retries a failure unless its type is *)
(* listed in nonRetryableErrorTypes or the attempts are used up; the       *)
(* workflow then treats the rejection as its code for that activity says.  *)
(***************************************************************************)
\* retry.maximumAttempts
MaximumAttempts == 10

\* retry.nonRetryableErrorTypes
NonRetryableErrorTypes ==
    {"ConfigurationError", "PermissionError", "InvalidTargetError"}

\* VeilcamsErrorType
VeilcamsErrorTypes ==
    {"ConfigurationError", "NetworkError", "PermissionError",
     "InvalidTargetError", "ScanError", "TimeoutError", "UnknownError"}

\* the pattern families classifyError tests a message for; a message is
\* the set of the families it matches
MessagePatterns == {"config", "permission", "target", "timeout", "network", "scan"}

\* the errors an attempt throws: a plain Error (parseConfig, the file
\* system, the network) with its message, or a VeilcamsError with its type
ThrownErrors ==
    {[name |-> "Error", type |-> "none", message |-> m] :
        m \in {ps \in SUBSET MessagePatterns : Cardinality(ps) <= 2}}
    \cup
    {[name |-> "VeilcamsError", type |-> t, message |-> {}] :
        t \in VeilcamsErrorTypes}

\* classifyError(error).type: the kind of a failure in the taxonomy
ClassifyError(e) ==
    IF e.name = "VeilcamsError" THEN e.type
    ELSE IF "config" \in e.message THEN "ConfigurationError"
    ELSE IF "permission" \in e.message THEN "PermissionError"
    ELSE IF "target" \in e.message THEN "InvalidTargetError"
    ELSE IF "timeout" \in e.message THEN "TimeoutError"
    ELSE IF "network" \in e.message THEN "NetworkError"
    ELSE IF "scan" \in e.message THEN "ScanError"
    ELSE "UnknownError"

\* the type the retry policy sees: activities rethrow the error as caught
\* (throw error), so it is the name of the error's class
FailureType(e) == e.name

\* the workflow calls an activity
RCall(a) ==
    /\ rpc = "idle"
    /\ ract' = a
    /\ rattempt' = 1
    /\ rpc' = "running"
    /\ UNCHANGED <<rerr, rwf, nonRetryVars>>

\* the attempt returns: the call fulfils
RAttemptReturns ==
    /\ rpc = "running"
    /\ rpc' = "fulfilled"
    /\ UNCHANGED <<ract, rattempt, rerr, rwf, nonRetryVars>>

\* the attempt throws e; the catch block records the failure and rethrows
RAttemptThrows(e) ==
    /\ rpc = "running"
    /\ rerr' = e
    /\ rpc' = "thrown"
    /\ UNCHANGED <<ract, rattempt, rwf, nonRetryVars>>

\* the retry policy: a non-retryable type or the last attempt rejects the
\* call, anything else is run again
RPolicy ==
    /\ rpc = "thrown"
    /\ IF FailureType(rerr) \in NonRetryableErrorTypes \/ rattempt >= MaximumAttempts
       THEN /\ rpc' = "rejected"
            /\ UNCHANGED rattempt
       ELSE /\ rpc' = "running"
            /\ rattempt' = rattempt + 1
    /\ UNCHANGED <<ract, rerr, rwf, nonRetryVars>>

\* the workflow after the call settled: a rejected discovery, fingerprint
\* or report call fails the run; a rejected testing branch or exploitation
\* call is replaced by a zeroed result and the run goes on
RWorkflow ==
    /\ rpc \in {"fulfilled", "rejected"}
    /\ rwf = "running"
    /\ rwf' = IF rpc = "fulfilled" THEN "continues"
              ELSE IF ract \in {"discovery", "fingerprint", "report"} THEN "failed"
              ELSE "continues"
    /\ UNCHANGED <<ract, rpc, rattempt, rerr, nonRetryVars>>

NextRetry ==
    \/ \E a \in Activities : RCall(a)
    \/ RAttemptReturns
    \/ \E e \in ThrownErrors : RAttemptThrows(e)
    \/ RPolicy
    \/ RWorkflow

SpecRetry == Init /\ [][NextRetry]_vars

\* C13: a failure whose kind is ConfigurationError, PermissionError or
\* InvalidTargetError is not followed by another attempt, and once the
\* workflow has dealt with the rejected call the run has failed, whichever
\* activity it was. (Stated as the claim states it; activities rethrow the
\* raw error, whose type for the policy is its class name, and a rejected
\* testing branch or exploitation call does not fail the run.)
NonRetryableKindFailsWorkflow ==
    (rerr # NoError /\ ClassifyError(rerr) \in NonRetryableErrorTypes) =>
        /\ rpc # "running"
        /\ (rpc = "rejected" /\ rwf # "running") => rwf = "failed"

(***************************************************************************)
(* SpecQuery: the workflow run of Spec with the getProgress query. The     *)
(* handler is synchronous, so a query is one step between two steps of the *)
(* run. An array is an object: a record field holds either a new array     *)
(* with its elements or a reference to one of the arrays of the workflow   *)
(* state, and a caller can push onto what it holds. The workflow takes its *)
(* next step when the caller has let go of the record.                     *)
(***************************************************************************)
\* [...array]: a new array with the same elements
CopyOfArray(array) == [ref |-> "new", elems |-> array]

\* the array object itself
SameArray(field) == [ref |-> field, elems |-> <<>>]

\* the elements a caller reads through an array field of its record
Elems(a, st) == IF a.ref = "new" THEN a.elems ELSE st[a.ref]

\* a handler that hands out the arrays of the workflow state themselves
GetProgressShared(st) ==
    [currentPhase |-> st.currentPhase,
     currentModule |-> st.currentModule,
     completedModules |-> SameArray("completedModules"),
     failedModules |-> SameArray("failedModules")]

\* the getProgress handler
GetProgress(st) ==
    [currentPhase |-> st.currentPhase,
     currentModule |-> st.currentModule,
     completedModules |-> CopyOfArray(st.completedModules),
     failedModules |-> CopyOfArray(st.failedModules)]

\* a getProgress query is answered
QueryProgress ==
    /\ progress' = GetProgress(state)
    /\ UNCHANGED <<state, nonQueryVars>>

\* array.push(x) through a reference
PushThrough(a, x, st) ==
    IF a.ref = "new" THEN st ELSE [st EXCEPT ![a.ref] = Append(@, x)]

PushedCopy(a, x) ==
    IF a.ref = "new" THEN [a EXCEPT !.elems = Append(@, x)] ELSE a

\* the caller mutates the record it got: it pushes onto both lists and
\* overwrites the phase
CallerMutates ==
    /\ progress # NoProgress
    /\ progress.currentPhase # "mutated"
    /\ progress' = [progress EXCEPT
                        !.currentPhase = "mutated",
                        !.completedModules = PushedCopy(@, "report"),
                        !.failedModules = PushedCopy(@, "report")]
    /\ state' = PushThrough(progress.failedModules, "report",
                    PushThrough(progress.completedModules, "report", state))
    /\ UNCHANGED nonQueryVars

\* the caller drops the record
CallerDrops ==
    /\ progress # NoProgress
    /\ progress' = NoProgress
    /\ UNCHANGED <<state, nonQueryVars>>

\* a step of the run, see Spec
RunStep == progress = NoProgress /\ Next

NextQuery ==
    \/ RunStep
    \/ QueryProgress
    \/ CallerMutates
    \/ CallerDrops

SpecQuery == Init /\ [][NextQuery]_vars

\* C14: a getProgress query, and whatever the caller then does to the
\* record it returned, changes nothing of the workflow: every step that
\* changes the caller's record leaves the workflow state and every other
\* variable of the run as they are; and the record of a query shows the
\* lists of the workflow state at that moment, whatever was done to the
\* records of earlier queries.
QueryHasNoSideEffect ==
    [][progress' # progress =>
        /\ UNCHANGED <<wfVars, lockFile>>
        /\ \/ progress' = NoProgress
           \/ progress'.currentPhase = "mutated"
           \/ progress' = GetProgress(state)]_vars

\* C14 witness: a caller has pushed onto the lists of its record and the
\* lists of the workflow state, one of them not empty, are not changed
QueryMutatedWitness ==
    /\ progress # NoProgress
    /\ progress.currentPhase = "mutated"
    /\ Len(state.completedModules) > 0
    /\ ~InSeq(state.completedModules, "report")
    /\ InSeq(Elems(progress.completedModules, state), "report")

(***************************************************************************)
(* SpecParallel: parallelLimit(tasks, concurrency). The code of a worker   *)
(* between two awaits runs without interruption: a worker takes an index,  *)
(* calls the task and awaits it; when the task's promise settles the       *)
(* worker stores the result and goes round its loop. Positions of the      *)
(* results array are counted from 1, the index counts from 0 as in the     *)
(* source.                                                                 *)
(***************************************************************************)
\* a slot of new Array(tasks.length) nothing was stored in
EmptySlot == [status |-> "empty", value |-> 0]

\* a worker's loop: while (index < tasks.length) { const currentIndex =
\* index++; ... await tasks[currentIndex]() }, from the loop test to the
\* await, for a worker that finds the shared index at i
WorkerRound(i, n) ==
    IF i < n THEN [pc |-> "await", currentIndex |-> i]
    ELSE [pc |-> "done", currentIndex |-> 0]

\* a pool with one worker per task, whatever the cap
WorkerCountPerTask(cap, n) == n

\* Math.min(concurrency, tasks.length)
WorkerCount(cap, n) == Min(cap, n)

\* a result stored at the first position, whatever the index
ResultSlotFirst(currentIndex) == 1

\* results[currentIndex]
ResultSlot(currentIndex) == currentIndex + 1

\* parallelLimit is called: Array.from creates the workers one after the
\* other, and each runs to its first await
PLCall(n, cap) ==
    /\ plpc = "idle"
    /\ tasks' = n
    /\ concurrency' = cap
    /\ LET k == WorkerCount(cap, n) IN
        /\ workers' = [w \in 1..k |-> WorkerRound(w - 1, n)]
        /\ index' = k
        /\ runs' = [i \in 1..n |-> IF i <= k THEN 1 ELSE 0]
    /\ results' = [i \in 1..n |-> EmptySlot]
    /\ outcome' = [i \in 1..n |-> "pending"]
    /\ plpc' = "running"
    /\ UNCHANGED nonParallelVars

\* the promise of the task a worker awaits settles: the result is stored
\* at the task's position and the worker goes round its loop
PLTaskSettles(w, status) ==
    /\ plpc = "running"
    /\ w \in DOMAIN workers
    /\ workers[w].pc = "await"
    /\ LET i == workers[w].currentIndex
           round == WorkerRound(index, tasks) IN
        /\ results' = [results EXCEPT ![ResultSlot(i)] =
                            [status |-> status, value |-> i + 1]]
        /\ outcome' = [outcome EXCEPT ![i + 1] = status]
        /\ workers' = [workers EXCEPT ![w] = round]
        /\ IF round.pc = "await"
           THEN /\ index' = index + 1
                /\ runs' = [runs EXCEPT ![index + 1] = @ + 1]
           ELSE UNCHANGED <<index, runs>>
    /\ UNCHANGED <<plpc, tasks, concurrency, nonParallelVars>>

\* await Promise.all(workers); return results
PLReturn ==
    /\ plpc = "running"
    /\ \A w \in DOMAIN workers : workers[w].pc = "done"
    /\ plpc' = "returned"
    /\ UNCHANGED <<tasks, concurrency, index, workers, results, runs, outcome,
                   nonParallelVars>>

NextParallel ==
    \/ \E n \in 0..MaxTasks, cap \in 0..MaxCap : PLCall(n, cap)
    \/ \E w \in 1..MaxTasks, status \in {"fulfilled", "rejected"} :
        PLTaskSettles(w, status)
    \/ PLReturn

SpecParallel == Init /\ [][NextParallel]_vars

\* tasks called and not settled yet
InFlight == {w \in DOMAIN workers : workers[w].pc = "await"}

\* C16: during a parallelLimit call at no instant are more tasks in flight
\* than the cap.
InFlightWithinCap ==
    plpc # "idle" => Cardinality(InFlight) <= concurrency

\* C16 witness: more tasks than the cap, and as many in flight as the cap
\* allows while one of them has settled already
InFlightAtCapWitness ==
    /\ plpc = "running"
    /\ concurrency >= 2
    /\ tasks > concurrency
    /\ Cardinality(InFlight) = concurrency
    /\ \E i \in 1..tasks : outcome[i] # "pending"

\* every task ran once and its result is at its position
AllTasksReported ==
    \A i \in 1..tasks :
        /\ runs[i] = 1
        /\ outcome[i] \in {"fulfilled", "rejected"}
        /\ results[i] = [status |-> outcome[i], value |-> i]

\* C17 as stated: for every task list and every cap no task is called
\* twice, and when parallelLimit returns every task was called exactly
\* once and the result at each position is that task's outcome, fulfilled
\* with its value or rejected with its reason.
EveryTaskRunsOnce ==
    /\ plpc # "idle" => \A i \in 1..tasks : runs[i] <= 1
    /\ plpc = "returned" => AllTasksReported

\* C17 as amended: the same for every cap of at least 1; with a cap of 0
\* parallelLimit starts no worker, calls no task and returns an array
\* whose slots are all empty.
EveryTaskRunsOnceUnderPositiveCap ==
    /\ plpc # "idle" => \A i \in 1..tasks : runs[i] <= 1
    /\ plpc = "returned" =>
        IF concurrency >= 1
        THEN AllTasksReported
        ELSE \A i \in 1..tasks : runs[i] = 0 /\ results[i] = EmptySlot

\* C17 witness: three tasks under a cap of 2 returned, the first rejected
\* and the others fulfilled
MixedOutcomesWitness ==
    /\ plpc = "returned"
    /\ tasks = 3
    /\ concurrency = 2
    /\ results[1].status = "rejected"
    /\ results[2].status = "fulfilled"
    /\ results[3].status = "fulfilled"

(***************************************************************************)
(* SpecRate: one RateLimiter and its acquirers. Time advances in polling   *)
(* intervals of 100 ms, and tokens are counted in tenths, so that          *)
(* elapsed * refillRate is exact: one interval adds `rate` tenths. The     *)
(* code of acquire() between two awaits runs without interruption.         *)
(***************************************************************************)
\* refill(): Math.min(maxTokens, tokens + elapsed * refillRate)
Refilled == Min(rate * TicksPerSecond, tokens + sinceRefill * rate)

\* new RateLimiter(config.rate_limiting.requests_per_second): the value is
\* what coerceTypes' parseInt made of the configured one
RLConstruct(r) ==
    /\ \A a \in Acquirers : apc[a] = "unborn"
    /\ rate' = r
    /\ tokens' = r * TicksPerSecond
    /\ sinceRefill' = 0
    /\ apc' = [a \in Acquirers |-> "idle"]
    /\ UNCHANGED <<completions, nonRateVars>>

\* refill(), then the loop test: with a token the call takes it and
\* completes, else it sleeps 100 ms
TakeOrSleep(a) ==
    /\ sinceRefill' = 0
    /\ IF Refilled >= TicksPerSecond
       THEN /\ tokens' = Refilled - TicksPerSecond
            /\ apc' = [apc EXCEPT ![a] = "idle"]
            /\ completions' = [completions EXCEPT ![TicksPerSecond] = @ + 1]
       ELSE /\ tokens' = Refilled
            /\ apc' = [apc EXCEPT ![a] = "sleeping"]
            /\ UNCHANGED completions
    /\ UNCHANGED <<rate, nonRateVars>>

\* acquire() is called
RLAcquire(a) ==
    /\ apc[a] = "idle"
    /\ TakeOrSleep(a)

\* the setTimeout of a waiting acquire() fires
RLPoll(a) ==
    /\ apc[a] = "due"
    /\ TakeOrSleep(a)

\* 100 ms pass
RLTick ==
    /\ \E a \in Acquirers : apc[a] # "unborn"
    /\ sinceRefill' = Min(sinceRefill + 1, TicksPerSecond)
    /\ apc' = [a \in Acquirers |-> IF apc[a] = "sleeping" THEN "due" ELSE apc[a]]
    /\ completions' = [i \in 1..TicksPerSecond |->
                        IF i < TicksPerSecond THEN completions[i + 1] ELSE 0]
    /\ UNCHANGED <<rate, tokens, nonRateVars>>

NextRate ==
    \/ \E r \in 0..MaxRate : RLConstruct(r)
    \/ \E a \in Acquirers : RLAcquire(a) \/ RLPoll(a)
    \/ RLTick

SpecRate == Init /\ [][NextRate]_vars

\* time advances, a timer that is due fires, and a waiting acquire() that
\* finds a token again and again takes one in the end
FairSpecRate ==
    /\ SpecRate
    /\ WF_vars(RLTick)
    /\ \A a \in Acquirers :
        /\ WF_vars(RLPoll(a))
        /\ SF_vars(RLPoll(a) /\ apc'[a] = "idle")

RECURSIVE SumTo(_, _)
SumTo(f, n) == IF n = 0 THEN 0 ELSE f[n] + SumTo(f, n - 1)

\* C18: the acquire() calls that completed within the last second (the
\* instants of a window of one second) number at most rate + 1. (Stated as
\* the claim states it; the bucket starts full and refills while its
\* tokens are being taken.)
CompletionsWithinRatePlusOne ==
    SumTo(completions, TicksPerSecond) <= rate + 1

\* C19: every acquire() call on a limiter constructed from a configured
\* rate eventually completes. (Stated as the claim states it; a configured
\* rate of 0 gives a bucket that never holds a token.)
AcquireEventuallyCompletes ==
    \A a \in Acquirers : (apc[a] \in {"sleeping", "due"}) ~> (apc[a] = "idle")

(***************************************************************************)
(* SpecCred: testHost of the credential tester on one device.  A body is   *)
(* its text, its length and the words of the tested patterns it contains;  *)
(* a request that throws is the answer of status 0.  The device answers    *)
(* every login endpoint alike, and answers a credential it does not know   *)
(* on its root as it answers no credential.  rateLimiter.acquire() is      *)
(* SpecRate's matter and is taken to complete.                             *)
(***************************************************************************)
Creds == 1..MaxCreds

EmptyBody == [text |-> "", length |-> 0, words |-> {}]
Landing == [text |-> "landing", length |-> 500, words |-> {}]
Dashboard == [text |-> "dashboard", length |-> 520, words |-> {"dashboard", "logout"}]
Denied == [text |-> "denied", length |-> 20, words |-> {"denied"}]
TokenJson == [text |-> "token", length |-> 20, words |-> {"token"}]

Threw == [status |-> 0, body |-> EmptyBody]
Ok(body) == [status |-> 200, body |-> body]
Refused == [status |-> 401, body |-> Denied]

RootAnswers == {Ok(Landing), Ok(Dashboard), Refused, Threw}
LoginAnswers == {Ok(Landing), Ok(TokenJson), Refused, Threw}

Hosts ==
    [reachable : {TRUE},
     unauth : RootAnswers,          \* GET / without credentials
     authed : RootAnswers,          \* GET / with the credential validCred
     login : LoginAnswers,          \* POST of a credential to a login endpoint
     loginChecks : BOOLEAN,         \* the endpoint refuses unknown credentials
     validCred : 0..MaxCreds,       \* 0: none of the tried credentials
     rtspUnauth : {200, 401}]       \* DESCRIBE without credentials

AuthTypes == {"none", "basic", "digest", "form", "bearer", "unknown"}

Targets == [authType : AuthTypes, protocols : {{"http"}, {"http", "rtsp"}, {"rtsp"}}]

Configs == [max_attempts_per_host : 1..MaxAttempts, rtsp : BOOLEAN]

\* the patterns, as the words whose presence they test
AuthIndicators ==
    {"logout", "signout", "dashboard", "welcome", "session", "authenticated", "token"}
FormErrorWords == {"error", "fail", "invalid", "wrong", "denied"}
FormSuccessWords == {"success", "ok", "true", "token", "session"}
ExplicitSuccess ==
    {"success:true", "statusValue:200", "result:true", "authorized:true", "token", "sessionID"}
ErrorIndicators ==
    FormErrorWords \cup {"unauthorized", "success:false", "statusValue:4xx"}

Matches(body, pattern) == body.words \cap pattern # {}

Abs(n) == IF n < 0 THEN -n ELSE n

Max(a, b) == IF a > b THEN a ELSE b

Success2xx3xx(status) == status >= 200 /\ status < 400

IsAuthenticatedResponseDifferent(baseline, authed) ==
    IF baseline.status \in {401, 403} /\ Success2xx3xx(authed.status) THEN TRUE
    ELSE IF baseline.status = -1 /\ Success2xx3xx(authed.status) THEN TRUE
    ELSE IF baseline.status = authed.status THEN
        IF baseline.body = authed.body THEN FALSE
        ELSE LET sizeDiff == Abs(baseline.body.length - authed.body.length)
                 maxSize == Max(Max(baseline.body.length, authed.body.length), 1)
             IN  IF 10 * sizeDiff < maxSize
                 THEN /\ Matches(authed.body, AuthIndicators)
                      /\ ~Matches(baseline.body, AuthIndicators)
                 ELSE TRUE
    ELSE Success2xx3xx(authed.status) /\ baseline.status >= 400

\* httpGet(baseUrl, {auth}) and httpGet(baseUrl) for cred = 0
HttpGetRoot(cred) ==
    IF cred # 0 /\ cred = host.validCred THEN host.authed ELSE host.unauth

\* httpPost(baseUrl + endpoint, {userName, password})
HttpPostLogin(cred) ==
    IF host.loginChecks /\ cred # host.validCred THEN Refused ELSE host.login

GetBaseline ==
    IF baselineCache.cached THEN baselineCache.value
    ELSE IF host.unauth = Threw THEN [status |-> -1, body |-> EmptyBody]
    ELSE host.unauth

HttpResult(cred, success, responseCode, evidence) ==
    [protocol |-> "http", credential |-> cred, success |-> success,
     responseCode |-> responseCode, evidence |-> evidence]

ConnectionError(cred) == HttpResult(cred, FALSE, 0, "connection-error")

\* the Basic test, and the generic fallback after the form endpoints
BasicAuth(cred, granted) ==
    LET resp == HttpGetRoot(cred)
        statusOk == Success2xx3xx(resp.status) /\ resp.status # 401
        genuineAuth == statusOk /\ IsAuthenticatedResponseDifferent(GetBaseline, resp)
    IN  IF resp = Threw THEN ConnectionError(cred)
        ELSE HttpResult(cred, genuineAuth, resp.status,
                        IF genuineAuth THEN granted
                        ELSE IF statusOk THEN "identical" ELSE "failed")

DigestAuth(cred) ==
    LET challengeResp == HttpGetRoot(0)
        resp == HttpGetRoot(cred)
        statusOk == Success2xx3xx(resp.status)
        genuineAuth == statusOk /\ IsAuthenticatedResponseDifferent(challengeResp, resp)
    IN  IF challengeResp = Threw \/ resp = Threw THEN ConnectionError(cred)
        ELSE HttpResult(cred, genuineAuth, resp.status,
                        IF genuineAuth THEN "digest-granted" ELSE "digest-failed")

FormLoginSuccess(resp) ==
    /\ resp.status = 200
    /\ ~Matches(resp.body, FormErrorWords)
    /\ (Matches(resp.body, FormSuccessWords) \/ resp.body.length > 100)

VendorLoginSuccess(resp) ==
    /\ resp.status = 200
    /\ Matches(resp.body, ExplicitSuccess)
    /\ ~Matches(resp.body, ErrorIndicators)

TestHttpAuth(cred) ==
    CASE target.authType \in {"basic", "unknown"} ->
            BasicAuth(cred, "basic-granted")
      [] target.authType = "digest" ->
            DigestAuth(cred)
      [] target.authType = "form" ->
            IF FormLoginSuccess(HttpPostLogin(cred))
            THEN HttpResult(cred, TRUE, 200, "form-login")
            ELSE BasicAuth(cred, "granted")
      [] target.authType = "none" ->
            IF VendorLoginSuccess(HttpPostLogin(cred))
            THEN HttpResult(cred, TRUE, 200, "vendor-api")
            ELSE HttpResult(cred, FALSE, GetBaseline.status, "none-enforced")
      [] OTHER ->
            BasicAuth(cred, "granted")

IsRtspUnauthenticated ==
    IF rtspUnauthCache.cached THEN rtspUnauthCache.value
    ELSE host.rtspUnauth = 200

\* rtspDescribe(ip, rtspPort, testPath, {username, password})
RtspDescribe(cred) ==
    IF host.rtspUnauth = 200 \/ cred = host.validCred THEN 200 ELSE 401

RtspResult(cred, success, responseCode, evidence) ==
    [protocol |-> "rtsp", credential |-> cred, success |-> success,
     responseCode |-> responseCode, evidence |-> evidence]

TestRtspAuth(cred) ==
    IF IsRtspUnauthenticated
    THEN RtspResult(cred, FALSE, 200, "unauthenticated-access")
    ELSE LET statusCode == RtspDescribe(cred)
         IN  RtspResult(cred, statusCode = 200, statusCode,
                        IF statusCode = 200 THEN "rtsp-granted" ELSE "rtsp-failed")

\* the worker process calls testHost(target, config) for a device the
\* first time
CTTestHost ==
    /\ thpc = "idle"
    /\ thpc' = "loop"
    /\ \E h \in Hosts, t \in Targets, c \in Configs :
        /\ host' = h
        /\ target' = t
        /\ config' = c
    /\ nextCred' = 1
    /\ attempts' = 0
    /\ foundValid' = FALSE
    /\ hostResults' = <<>>
    /\ invocation' = 1
    /\ UNCHANGED <<baselineCache, rtspUnauthCache>>
    /\ UNCHANGED nonCredVars

\* what the device may have become between two invocations: unchanged, its
\* access control switched off, or its access control switched on
Reconfigured(h) ==
    {h,
     [h EXCEPT !.unauth = h.authed, !.rtspUnauth = 200],
     [h EXCEPT !.unauth = Refused, !.rtspUnauth = 401]}

\* a later activity invocation in the same worker process (a retried
\* attempt, a later session) calls testHost for the same device: the
\* locals are fresh, the module-level caches are what they were
CTTestHostAgain ==
    /\ thpc = "returned"
    /\ invocation < MaxInvocations
    /\ thpc' = "loop"
    /\ host' \in Reconfigured(host)
    /\ nextCred' = 1
    /\ attempts' = 0
    /\ foundValid' = FALSE
    /\ hostResults' = <<>>
    /\ invocation' = invocation + 1
    /\ UNCHANGED <<target, config, baselineCache, rtspUnauthCache>>
    /\ UNCHANGED nonCredVars

\* the RTSP test without the continue that follows an HTTP success
DoRtspAfterSuccess(httpValid) ==
    "rtsp" \in target.protocols /\ config.rtsp

\* the RTSP test runs unless the HTTP test succeeded (continue)
DoRtsp(httpValid) ==
    ~httpValid /\ "rtsp" \in target.protocols /\ config.rtsp

LoopEnds ==
    \/ nextCred > MaxCreds
    \/ attempts >= config.max_attempts_per_host
    \/ foundValid

\* one iteration of for (const cred of creds)
CTIterate ==
    /\ thpc = "loop"
    /\ ~LoopEnds
    /\ LET cred == nextCred
           doHttp == "http" \in target.protocols \/ "https" \in target.protocols
           httpResult == TestHttpAuth(cred)
           httpValid == doHttp /\ httpResult.success
           doRtsp == DoRtsp(httpValid)
           rtspResult == TestRtspAuth(cred)
       IN  /\ attempts' = attempts + (IF doHttp THEN 1 ELSE 0)
                                   + (IF doRtsp THEN 1 ELSE 0)
           /\ hostResults' = hostResults
                             \o (IF doHttp THEN <<httpResult>> ELSE <<>>)
                             \o (IF doRtsp THEN <<rtspResult>> ELSE <<>>)
           /\ foundValid' = (httpValid \/ (doRtsp /\ rtspResult.success))
           /\ baselineCache' = IF doHttp /\ ~baselineCache.cached
                               THEN [cached |-> TRUE, value |-> GetBaseline,
                                     by |-> invocation]
                               ELSE baselineCache
           /\ rtspUnauthCache' = IF doRtsp /\ ~rtspUnauthCache.cached
                                 THEN [cached |-> TRUE,
                                       value |-> IsRtspUnauthenticated,
                                       by |-> invocation]
                                 ELSE rtspUnauthCache
    /\ nextCred' = nextCred + 1
    /\ UNCHANGED <<thpc, host, target, config, invocation>>
    /\ UNCHANGED nonCredVars

\* return results
CTReturn ==
    /\ thpc = "loop"
    /\ LoopEnds
    /\ thpc' = "returned"
    /\ UNCHANGED <<host, target, config, nextCred, attempts, foundValid,
                   hostResults, baselineCache, rtspUnauthCache, invocation>>
    /\ UNCHANGED nonCredVars

NextCred ==
    \/ CTTestHost
    \/ CTTestHostAgain
    \/ CTIterate
    \/ CTReturn

SpecCred == Init /\ [][NextCred]_vars

\* the root of the device answers 200 with the same body with and without
\* credentials, and the body has no post-login marker
RootIndifferent ==
    /\ thpc # "idle"
    /\ host.unauth.status = 200
    /\ host.authed = host.unauth
    /\ ~Matches(host.unauth.body, AuthIndicators)

\* C20: for a host whose root answers 200 with the same body with and
\* without credentials, the body holding no post-login marker, the
\* credential tester records no successful HTTP credential, whatever the
\* fingerprinted auth-type and however many credentials it tries (the RTSP
\* results are the matter of the RTSP property)
BaselineDifferentiation ==
    RootIndifferent =>
        \A i \in DOMAIN hostResults :
            hostResults[i].protocol = "http" => ~hostResults[i].success

\* C21: for a host whose unauthenticated DESCRIBE on the tested path
\* answers 200, every credential tested against the path yields
\* success = false with the evidence that unauthenticated access is the
\* real finding; no credentialed DESCRIBE is counted as a login
RtspFalsePositiveSuppressed ==
    (thpc # "idle" /\ host.rtspUnauth = 200) =>
        \A i \in DOMAIN hostResults :
            hostResults[i].protocol = "rtsp" =>
                /\ ~hostResults[i].success
                /\ hostResults[i].evidence = "unauthenticated-access"

\* C26: after the first attempt that yields success = true on any protocol
\* no further attempt is made against the host: the result list holds at
\* most one successful result, and it is the last one
SuccessEndsTheAttempts ==
    \A i \in DOMAIN hostResults :
        hostResults[i].success => i = Len(hostResults)

\* testHost returned a list of several results that ends with a success
SuccessAfterFailuresWitness ==
    /\ thpc = "returned"
    /\ Len(hostResults) >= 2
    /\ hostResults[Len(hostResults)].success
    /\ nextCred <= MaxCreds
    /\ attempts < config.max_attempts_per_host

\* C27: the attempts made against a host, HTTP and RTSP together, never
\* exceed credentials.max_attempts_per_host
AttemptsWithinCap ==
    attempts <= config.max_attempts_per_host

\* C28: an invocation of the credential tester never uses a baseline or an
\* unauthenticated RTSP result that an earlier invocation fetched
CachesConfinedToInvocation ==
    \A i \in DOMAIN hostResults :
        /\ hostResults[i].protocol = "http" => baselineCache.by = invocation
        /\ hostResults[i].protocol = "rtsp" => rtspUnauthCache.by = invocation

(***************************************************************************)
(* SpecFuzz: runProtocolFuzzer.  The ownership loop is synchronous; the    *)
(* fuzzHost calls run under parallelLimit and settle in any order.  Of     *)
(* fuzzHost only the RTSP pass is kept.                                    *)
(***************************************************************************)
Ips == {"10.0.0.1", "10.0.0.2"}

Ports == {80, 554, 8554}

RtspPorts == {554, 8554, 8555, 10554}

FuzzTargets == [ip : Ips, port : Ports, rtsp : BOOLEAN]

\* the records of a fingerprint array differ in ip:port
DistinctEndpoints(ts) ==
    \A i, j \in DOMAIN ts :
        (ts[i].ip = ts[j].ip /\ ts[i].port = ts[j].port) => i = j

TargetKey(t) == <<t.ip, t.port>>

\* the ownership loop without its preference: the first record stays
OwnerStepFirst(owner, t, rtsp) ==
    IF rtsp /\ t.rtsp /\ owner[t.ip] = NoOwner
    THEN [owner EXCEPT ![t.ip] = TargetKey(t)]
    ELSE owner

\* one round of for (const target of targets) on the Map owner
OwnerStep(owner, t, rtsp) ==
    IF rtsp /\ t.rtsp
    THEN IF owner[t.ip] = NoOwner
         THEN [owner EXCEPT ![t.ip] = TargetKey(t)]
         ELSE IF t.port \in RtspPorts /\ owner[t.ip][2] \notin RtspPorts
              THEN [owner EXCEPT ![t.ip] = TargetKey(t)]
              ELSE owner
    ELSE owner

RECURSIVE OwnersAfter(_, _, _)
\* the Map after the first n rounds of the loop
OwnersAfter(ts, n, rtsp) ==
    IF n = 0 THEN [ip \in Ips |-> NoOwner]
    ELSE OwnerStep(OwnersAfter(ts, n - 1, rtsp), ts[n], rtsp)

\* every target runs its RTSP pass
SkipRtspNever(t) == FALSE

SkipRtsp(t) == rtspFuzzOwner[t.ip] # TargetKey(t)

\* runProtocolFuzzer(targets, config) is called
FZCall ==
    /\ fzpc = "idle"
    /\ \E n \in 0..MaxTargets, rtsp \in BOOLEAN, cap \in 0..MaxCap :
        \E ts \in [1..n -> FuzzTargets] :
            /\ DistinctEndpoints(ts)
            /\ fzTargets' = ts
            /\ fzRtsp' = rtsp
            /\ fzConcurrency' = cap
            /\ rtspFuzzOwner' = OwnersAfter(ts, n, rtsp)
            /\ rtspPasses' = [i \in 1..n |-> 0]
    /\ fzpc' = "running"
    /\ fzSettled' = {}
    /\ UNCHANGED nonFuzzVars

\* a worker of parallelLimit runs the task of target i:
\* fuzzHost(target, config, skipRtsp)
FZFuzzHost(i) ==
    /\ fzpc = "running"
    /\ i \in DOMAIN fzTargets \ fzSettled
    /\ WorkerCount(fzConcurrency, Len(fzTargets)) > 0
    /\ LET t == fzTargets[i]
           skipRtsp == SkipRtsp(t)
       IN  rtspPasses' =
               IF fzRtsp /\ t.rtsp /\ ~skipRtsp
               THEN [rtspPasses EXCEPT ![i] = @ + 1]
               ELSE rtspPasses
    /\ fzSettled' = fzSettled \cup {i}
    /\ UNCHANGED <<fzpc, fzTargets, fzRtsp, fzConcurrency, rtspFuzzOwner>>
    /\ UNCHANGED nonFuzzVars

\* the workers of parallelLimit have ended: the module result is returned
FZReturn ==
    /\ fzpc = "running"
    /\ \/ fzSettled = DOMAIN fzTargets
       \/ WorkerCount(fzConcurrency, Len(fzTargets)) = 0
    /\ fzpc' = "returned"
    /\ UNCHANGED <<fzTargets, fzRtsp, fzConcurrency, rtspFuzzOwner, fzSettled,
                   rtspPasses>>
    /\ UNCHANGED nonFuzzVars

NextFuzz ==
    \/ FZCall
    \/ \E i \in 1..MaxTargets : FZFuzzHost(i)
    \/ FZReturn

SpecFuzz == Init /\ [][NextFuzz]_vars

\* the records of an IP that advertise RTSP
RtspRecords(ip) ==
    {i \in DOMAIN fzTargets : fzTargets[i].ip = ip /\ fzTargets[i].rtsp}

\* the records of an IP that ran the RTSP pass
RtspFuzzers(ip) == {i \in RtspRecords(ip) : rtspPasses[i] > 0}

\* C22 as stated: for an IP with several records advertising RTSP, exactly
\* one of them performs the RTSP fuzzing pass in a run and the others skip
\* it
RtspOwnerUnique ==
    fzpc = "returned" =>
        \A ip \in Ips :
            Cardinality(RtspRecords(ip)) >= 2 =>
                /\ Cardinality(RtspFuzzers(ip)) = 1
                /\ \A i \in RtspRecords(ip) : rtspPasses[i] <= 1

\* C22, amended: the same in a run with protocols.rtsp enabled and a
\* concurrency cap of 1 or more; in every other run none of the records
\* performs the pass
RtspOwnerUniqueWhenEnabled ==
    /\ \A ip \in Ips : Cardinality(RtspFuzzers(ip)) <= 1
    /\ \A i \in DOMAIN rtspPasses : rtspPasses[i] <= 1
    /\ fzpc = "returned" =>
        \A ip \in Ips :
            Cardinality(RtspRecords(ip)) >= 2 =>
                Cardinality(RtspFuzzers(ip)) =
                    (IF fzRtsp /\ fzConcurrency >= 1 THEN 1 ELSE 0)

LaterRtspPortOwnsWitness ==
    /\ fzpc = "returned"
    /\ fzRtsp
    /\ Len(fzTargets) >= 2
    /\ fzTargets[1].ip = fzTargets[2].ip
    /\ fzTargets[1].rtsp /\ fzTargets[2].rtsp
    /\ rtspPasses[1] = 0
    /\ rtspPasses[2] = 1

(***************************************************************************)
(* SpecSocket: one call of rtspOptions or rtspDescribe.  The socket emits  *)
(* its events (connect, data, timeout, error) in any order while it is     *)
(* not destroyed; a destroyed net.Socket emits none.  A timer fires while  *)
(* it is armed.                                                            *)
(***************************************************************************)
\* settle without socket.destroy()
SettleKeepsSocket(how, value) ==
    IF settled
    THEN UNCHANGED <<settled, timer, socket, promise, skValue, settlements>>
    ELSE /\ settled' = TRUE
         /\ timer' = "cleared"
         /\ UNCHANGED socket
         /\ promise' = how
         /\ skValue' = value
         /\ settlements' = settlements + 1

\* const settle = (fn, value) => { ... }
Settle(how, value) ==
    IF settled
    THEN UNCHANGED <<settled, timer, socket, promise, skValue, settlements>>
    ELSE /\ settled' = TRUE
         /\ timer' = "cleared"
         /\ socket' = "destroyed"
         /\ promise' = how
         /\ skValue' = value
         /\ settlements' = settlements + 1

\* if (bodyTimer) clearTimeout(bodyTimer)
ClearBodyTimer ==
    bodyTimer' = IF bodyTimer = "armed" THEN "cleared" ELSE bodyTimer

\* rtspOptions(...) or rtspDescribe(...) is called: the promise executor
\* creates the connection, registers the handlers and arms the timer
SKCall(fn, auth) ==
    /\ skFn = "none"
    /\ skFn' = fn
    /\ skAuth' = auth
    /\ promise' = "pending"
    /\ socket' = "connecting"
    /\ timer' = "armed"
    /\ UNCHANGED <<statusLine, skValue, settled, bodyTimer, chunks,
                   headerComplete, settlements>>
    /\ UNCHANGED nonSocketVars

\* the connect listener: socket.write(request)
SKConnect ==
    /\ socket = "connecting"
    /\ socket' = "connected"
    /\ UNCHANGED <<skFn, skAuth, statusLine, skValue, promise, settled, timer,
                   bodyTimer, chunks, headerComplete, settlements>>
    /\ UNCHANGED nonSocketVars

\* what statusMatch ? parseInt(statusMatch[1], 10) : 0 makes of the data
StatusCodes == {"200", "401", "0"}

\* socket.on('data'): the chunk ends the header, or does not; the first
\* chunk holds the status line
SKData(endsHeader, code) ==
    /\ socket = "connected"
    /\ chunks < MaxChunks
    /\ chunks' = chunks + 1
    /\ statusLine' = IF chunks = 0 THEN code ELSE statusLine
    /\ headerComplete' = (headerComplete \/ endsHeader)
    /\ IF skFn = "rtspOptions"
       THEN /\ IF headerComplete'
               THEN Settle("resolved", statusLine')
               ELSE UNCHANGED <<settled, timer, socket, promise, skValue,
                                settlements>>
            /\ UNCHANGED bodyTimer
       ELSE /\ bodyTimer' = IF headerComplete' /\ bodyTimer = "null"
                            THEN "armed" ELSE bodyTimer
            /\ UNCHANGED <<settled, timer, socket, promise, skValue,
                           settlements>>
    /\ UNCHANGED <<skFn, skAuth>>
    /\ UNCHANGED nonSocketVars

\* bodyTimer fires after 150 ms: settle(resolve, {statusCode, raw})
SKBodyTimer ==
    /\ bodyTimer = "armed"
    /\ bodyTimer' = "fired"
    /\ Settle("resolved", statusLine)
    /\ UNCHANGED <<skFn, skAuth, statusLine, chunks, headerComplete>>
    /\ UNCHANGED nonSocketVars

\* socket.on('timeout')
SKTimeout ==
    /\ socket \in {"connecting", "connected"}
    /\ IF skFn = "rtspDescribe" THEN ClearBodyTimer ELSE UNCHANGED bodyTimer
    /\ Settle("rejected", "socket timeout")
    /\ UNCHANGED <<skFn, skAuth, statusLine, chunks, headerComplete>>
    /\ UNCHANGED nonSocketVars

\* socket.on('error'); the socket that emits it has destroyed itself
SKError ==
    /\ socket \in {"connecting", "connected"}
    /\ IF skFn = "rtspDescribe" THEN ClearBodyTimer ELSE UNCHANGED bodyTimer
    /\ IF settled
       THEN /\ socket' = "destroyed"
            /\ UNCHANGED <<settled, timer, promise, skValue, settlements>>
       ELSE Settle("rejected", "socket error")
    /\ UNCHANGED <<skFn, skAuth, statusLine, chunks, headerComplete>>
    /\ UNCHANGED nonSocketVars

\* timer fires after timeout ms
SKTimer ==
    /\ timer = "armed"
    /\ IF skFn = "rtspDescribe" THEN ClearBodyTimer ELSE UNCHANGED bodyTimer
    /\ IF settled
       THEN /\ timer' = "fired"
            /\ UNCHANGED <<settled, socket, promise, skValue, settlements>>
       ELSE Settle("rejected", "timeout after ms")
    /\ UNCHANGED <<skFn, skAuth, statusLine, chunks, headerComplete>>
    /\ UNCHANGED nonSocketVars

NextSocket ==
    \/ \E fn \in {"rtspOptions", "rtspDescribe"}, auth \in BOOLEAN :
           SKCall(fn, auth)
    \/ SKConnect
    \/ \E endsHeader \in BOOLEAN, code \in StatusCodes :
           SKData(endsHeader, code)
    \/ SKBodyTimer
    \/ SKTimeout
    \/ SKError
    \/ SKTimer

SpecSocket == Init /\ [][NextSocket]_vars

\* setTimeout callbacks run once their delay has passed
FairSpecSocket ==
    SpecSocket /\ WF_vars(SKTimer) /\ WF_vars(SKBodyTimer)

\* the promise is settled and nothing of the call is left alive
SettledClean ==
    /\ settled
    /\ promise \in {"resolved", "rejected"}
    /\ settlements = 1
    /\ socket = "destroyed"
    /\ timer # "armed"
    /\ bodyTimer # "armed"

\* C23: under every ordering of the socket events and the timers, the
\* promise of rtspOptions and rtspDescribe settles exactly once and the
\* socket is destroyed at that settlement; nothing settles it again, and no
\* socket or timer stays alive after it
SettlesExactlyOnce ==
    /\ [](settlements <= 1)
    /\ []((settled \/ promise \in {"resolved", "rejected"}) => SettledClean)
    /\ (promise = "pending") ~> SettledClean

\* rtspDescribe was rejected by the timer while bodyTimer was armed
DescribeTimerBeatsBodyTimerWitness ==
    /\ skFn = "rtspDescribe"
    /\ promise = "rejected"
    /\ bodyTimer = "cleared"
    /\ headerComplete
    /\ SettledClean

(***************************************************************************)
(* SpecDigest: computeDigestAuth.  MD5 is uninterpreted: the digest of a   *)
(* string is the term md5 of it, and the string a:b:c is the tuple of its  *)
(* parts.  "" is the absent (or empty) optional parameter.                 *)
(***************************************************************************)
MD5(parts) == [md5 |-> parts]

\* the qop values parseWwwAuthenticate takes from a challenge: none, one
\* token, or the server's comma-separated offer as it stands
ParsedQops == {"", "auth", "auth-int", "auth,auth-int"}

DigestParams ==
    [called : {TRUE},
     username : {"admin", "root"},
     password : {"12345", ""},
     realm : {"camera"},
     nonce : {"n1", "n2"},
     method : {"GET"},
     uri : {"/"},
     qop : ParsedQops,
     nc : {"", "00000002"},
     cnonce : {"", "c1"},
     algorithm : {"", "MD5", "MD5-sess"}]

\* algorithm?.toLowerCase()
ToLowerCase(str) ==
    CASE str = "MD5" -> "md5"
      [] str = "MD5-sess" -> "md5-sess"
      [] OTHER -> str

\* HA2 of a request whose entity body enters the hash for auth-int
HA2WithEntityBody(params) ==
    IF params.qop = "auth-int"
    THEN MD5(<<params.method, params.uri, MD5(<<"">>)>>)
    ELSE MD5(<<params.method, params.uri>>)

\* const ha2
HA2(params) == MD5(<<params.method, params.uri>>)

\* let ha1
HA1(params, cnonce) ==
    LET ha1 == MD5(<<params.username, params.realm, params.password>>)
    IN  IF ToLowerCase(params.algorithm) = "md5-sess"
        THEN MD5(<<ha1, params.nonce, cnonce>>)
        ELSE ha1

\* let response, for the cnonce and the nc in use
DigestResponse(params, nc, cnonce, ha2) ==
    IF params.qop = "auth" \/ params.qop = "auth-int"
    THEN MD5(<<HA1(params, cnonce), params.nonce, nc, cnonce, params.qop, ha2>>)
    ELSE MD5(<<HA1(params, cnonce), params.nonce, ha2>>)

\* computeDigestAuth(params) returns the header
DGCompute(params) ==
    /\ dgParams = NoParams
    /\ dgParams' = params
    /\ \E random \in {"r1", "r2"} :
        LET nc == IF params.nc = "" THEN "00000001" ELSE params.nc
            cnonce == IF params.cnonce = "" THEN random ELSE params.cnonce
        IN  dgHeader' =
                [called |-> TRUE,
                 username |-> params.username,
                 realm |-> params.realm,
                 nonce |-> params.nonce,
                 uri |-> params.uri,
                 response |-> DigestResponse(params, nc, cnonce, HA2(params)),
                 qop |-> params.qop,
                 nc |-> IF params.qop # "" THEN nc ELSE "",
                 cnonce |-> IF params.qop # "" THEN cnonce ELSE "",
                 usedNc |-> nc,
                 usedCnonce |-> cnonce,
                 algorithm |-> params.algorithm]
    /\ UNCHANGED nonDigestVars

NextDigest == \E params \in DigestParams : DGCompute(params)

SpecDigest == Init /\ [][NextDigest]_vars

\* the response of RFC 2617, section 3.2.2, for the nc and the cnonce of the
\* header; the requests are GET requests with an empty entity body
Rfc2617Response ==
    DigestResponse(dgParams, dgHeader.usedNc, dgHeader.usedCnonce,
                   HA2WithEntityBody(dgParams))

\* the response was computed with the qop formula
\* MD5(HA1:nonce:nc:cnonce:qop:HA2), which has six parts
UsedQopFormula == Len(dgHeader.response.md5) = 6

\* the header carries the fields qop, nc and cnonce
HeaderHasQopFields ==
    dgHeader.qop # "" /\ dgHeader.nc # "" /\ dgHeader.cnonce # ""

\* C36: in the header built by computeDigestAuth the fields qop, nc and
\* cnonce are present exactly when the response was computed with the qop
\* formula, for every qop value taken from a parsed challenge
QopFieldsAgreeWithFormula ==
    dgHeader # NoParams => (HeaderHasQopFields <=> UsedQopFormula)

\* C24: with MD5 uninterpreted, the response of the header built by
\* computeDigestAuth is the response of the RFC-2617 reference computation
\* for the same user, password, realm, nonce, method, URI, qop, algorithm
\* and cnonce
DigestMatchesRfc2617 ==
    dgParams # NoParams => dgHeader.response = Rfc2617Response

(***************************************************************************)
(* SpecCredList: buildCredentialList, and the order in which the loop of   *)
(* testHost takes the credentials.  A credential is the pair of its        *)
(* username and its password.  What a test answers is SpecCred's matter:   *)
(* here a test ends with a valid credential or without.                    *)
(***************************************************************************)
\* DEFAULT_CREDENTIALS of three vendors; the other vendors are left out
DEFAULT_CREDENTIALS ==
    [reolink |-> << <<"admin", "">>, <<"admin", "admin">>, <<"admin", "123456">> >>,
     uniview |-> << <<"admin", "123456">>, <<"admin", "admin">> >>,
     unknown |-> << <<"admin", "admin">>, <<"admin", "">>, <<"admin", "12345">>,
                    <<"admin", "123456">>, <<"admin", "password">>,
                    <<"root", "root">>, <<"root", "">>, <<"user", "user">>,
                    <<"admin", "1234">>, <<"admin", "admin123">> >>]

\* the vendors of the targets; a vendor without entry has no defaults
Vendors == {"reolink", "uniview", "unknown", "generic"}

CustomCreds == { <<"admin", "admin">>, <<"ops", "s3cret">>, <<"admin", "">> }

CustomLists == UNION {[1..n -> CustomCreds] : n \in 0..MaxCustom}

\* `${c.username}:${c.password}`
CredKey(c) == <<c[1], ":", c[2]>>

Keys(list) == {CredKey(list[i]) : i \in DOMAIN list}

\* addCred without the seen set
AddCredUnseen(list, c) == Append(list, c)

\* const addCred = (c) => { ... }
AddCred(list, c) ==
    IF CredKey(c) \in Keys(list) THEN list ELSE Append(list, c)

RECURSIVE ForEachAddCred(_, _, _)
\* cs.forEach(addCred), for the first n elements of cs
ForEachAddCred(list, cs, n) ==
    IF n = 0 THEN list
    ELSE AddCred(ForEachAddCred(list, cs, n - 1), cs[n])

\* DEFAULT_CREDENTIALS[target.vendor] || []
VendorCreds(vendor) ==
    IF vendor \in DOMAIN DEFAULT_CREDENTIALS
    THEN DEFAULT_CREDENTIALS[vendor] ELSE <<>>

BuildCredentialList(vendor, use_defaults, custom) ==
    LET vendorCreds == VendorCreds(vendor)
        afterVendor ==
            IF use_defaults
            THEN ForEachAddCred(<<>>, vendorCreds, Len(vendorCreds))
            ELSE <<>>
        afterGeneric ==
            IF use_defaults /\ vendor # "unknown"
            THEN ForEachAddCred(afterVendor, DEFAULT_CREDENTIALS.unknown,
                                Len(DEFAULT_CREDENTIALS.unknown))
            ELSE afterVendor
    IN  ForEachAddCred(afterGeneric, custom, Len(custom))

ListInputs ==
    [called : {TRUE},
     vendor : Vendors,
     use_defaults : BOOLEAN,
     custom : CustomLists,
     max_attempts_per_host : {1, 2 * Len(DEFAULT_CREDENTIALS.unknown)},
     protocols : 1..2]          \* the tests one credential takes

\* testHost is called: the list is built
CLTestHost ==
    /\ clpc = "idle"
    /\ \E in \in ListInputs :
        /\ clInput' = in
        /\ creds' = BuildCredentialList(in.vendor, in.use_defaults, in.custom)
    /\ clpc' = "loop"
    /\ clNext' = 1
    /\ clAttempts' = 0
    /\ clFoundValid' = FALSE
    /\ tried' = <<>>
    /\ UNCHANGED nonListVars

ListLoopEnds ==
    \/ clNext > Len(creds)
    \/ clAttempts >= clInput.max_attempts_per_host
    \/ clFoundValid

\* the loop takes the next credential and awaits its tests
CLStartTest ==
    /\ clpc = "loop"
    /\ ~ListLoopEnds
    /\ clpc' = "testing"
    /\ tried' = Append(tried, creds[clNext])
    /\ UNCHANGED <<clInput, creds, clNext, clAttempts, clFoundValid>>
    /\ UNCHANGED nonListVars

\* the tests of the credential have returned
CLEndTest(valid) ==
    /\ clpc = "testing"
    /\ clpc' = "loop"
    /\ clAttempts' = clAttempts + clInput.protocols
    /\ clFoundValid' = valid
    /\ clNext' = clNext + 1
    /\ UNCHANGED <<clInput, creds, tried>>
    /\ UNCHANGED nonListVars

\* return results
CLReturn ==
    /\ clpc = "loop"
    /\ ListLoopEnds
    /\ clpc' = "returned"
    /\ UNCHANGED <<clInput, creds, clNext, clAttempts, clFoundValid, tried>>
    /\ UNCHANGED nonListVars

NextList ==
    \/ CLTestHost
    \/ CLStartTest
    \/ \E valid \in BOOLEAN : CLEndTest(valid)
    \/ CLReturn

SpecCredList == Init /\ [][NextList]_vars

\* the credentials in the order vendor defaults, generic defaults (when the
\* vendor is not unknown), custom credentials, before deduplication
Concatenated ==
    (IF clInput.use_defaults THEN VendorCreds(clInput.vendor) ELSE <<>>)
    \o (IF clInput.use_defaults /\ clInput.vendor # "unknown"
        THEN DEFAULT_CREDENTIALS.unknown ELSE <<>>)
    \o clInput.custom

\* the position of the first occurrence of c in list
FirstIndex(list, c) ==
    CHOOSE i \in DOMAIN list :
        /\ list[i] = c
        /\ \A j \in 1..(i - 1) : list[j] # c

\* C25: for one host the attempts are made one at a time in the order of
\* the built list: vendor defaults, then generic defaults (only when the
\* vendor is not unknown), then custom credentials; no username:password
\* pair occurs twice in the list, and the first occurrence keeps its place
AttemptsFollowTheBuiltList ==
    clpc # "idle" =>
        /\ \A i, j \in DOMAIN creds : creds[i] = creds[j] => i = j
        /\ {creds[i] : i \in DOMAIN creds}
               = {Concatenated[i] : i \in DOMAIN Concatenated}
        /\ \A i, j \in DOMAIN creds :
               i < j => FirstIndex(Concatenated, creds[i])
                            < FirstIndex(Concatenated, creds[j])
        /\ Len(tried) <= Len(creds)
        /\ \A i \in DOMAIN tried : tried[i] = creds[i]
        /\ Len(tried) = (IF clpc = "testing" THEN clNext ELSE clNext - 1)

\* a list with a vendor default, a generic default and a custom credential,
\* a duplicate of each dropped, was tried to its end
AllThreeSourcesTriedWitness ==
    /\ clpc = "returned"
    /\ clInput.vendor = "uniview"
    /\ clInput.use_defaults
    /\ clInput.custom = << <<"admin", "admin">>, <<"ops", "s3cret">> >>
    /\ tried = creds
    /\ Len(creds) = Len(DEFAULT_CREDENTIALS.unknown) + 1

(***************************************************************************)
(* SpecAudit: workflow.log and the per-module event logs of one session    *)
(***************************************************************************)
\* the attempt every activity passes to audit.startModule
StartModuleAttempt == 1

\* fs.writeFileSync(path, data): the file holds data and nothing else
WriteFileSync(file, data) == data
\* fs.appendFileSync(path, line) / ModuleLogger.logEvent on a file opened 'a'
AppendFileSync(file, line) == Append(file, line)

\* the header WorkflowLogger.initialize writes, with its Started: time
Header(run) == [line |-> "header", module |-> "", started |-> run]
ModuleLine(m, status) == [line |-> status, module |-> m, started |-> 0]
MessageLine(message) == [line |-> message, module |-> "", started |-> 0]
\* ModuleLogger.filePath
ModuleLoggerFile(m, attempt) == <<m, attempt>>
\* one JSONL record; writer is the Temporal attempt that wrote it
AuditEvent(event, m, attempt, writer) ==
    [event |-> event, module |-> m, attempt |-> attempt, writer |-> writer]

AuCurrentModule == ModuleOrder[auIndex]

\* an activity begins: new AuditSession, audit.initialize()
AUInitialize ==
    /\ aupc = "idle"
    /\ auIndex <= Len(ModuleOrder)
    /\ auRuns < MaxRuns
    /\ auRuns' = auRuns + 1
    /\ activityAttempt' =
           [activityAttempt EXCEPT ![AuCurrentModule] = @ + 1]
    /\ workflowLog' = WriteFileSync(workflowLog, <<Header(auRuns + 1)>>)
    /\ aupc' = "initialized"
    /\ UNCHANGED <<auIndex, currentLogger, agentFiles>>
    /\ UNCHANGED nonAuditVars

\* audit.startModule('<module>', 1)
AUStartModule ==
    /\ aupc = "initialized"
    /\ LET m == AuCurrentModule
           file == ModuleLoggerFile(m, StartModuleAttempt)
       IN  /\ currentLogger' = file
           /\ workflowLog' =
                  AppendFileSync(workflowLog, ModuleLine(m, "STARTED"))
           /\ agentFiles' =
                  [agentFiles EXCEPT ![file] = AppendFileSync(@,
                      AuditEvent("module_start", m, StartModuleAttempt,
                                 activityAttempt[m]))]
    /\ aupc' = "running"
    /\ UNCHANGED <<auIndex, auRuns, activityAttempt>>
    /\ UNCHANGED nonAuditVars

\* audit.endModule('<module>', success), and audit.finalize after the
\* report; a failed activity is run again by the retry policy
AUEndModule(success) ==
    /\ aupc = "running"
    /\ LET m == AuCurrentModule
           ended == AppendFileSync(workflowLog,
                        ModuleLine(m, IF success THEN "COMPLETED"
                                                 ELSE "FAILED"))
       IN  /\ agentFiles' =
                  [agentFiles EXCEPT ![currentLogger] = AppendFileSync(@,
                      AuditEvent("module_end", m, StartModuleAttempt,
                                 activityAttempt[m]))]
           /\ workflowLog' =
                  IF success /\ m = "report"
                  THEN AppendFileSync(ended,
                           MessageLine("=== Workflow completed ==="))
                  ELSE ended
    /\ currentLogger' = NoLogger
    /\ auIndex' = IF success THEN auIndex + 1 ELSE auIndex
    /\ aupc' = "idle"
    /\ UNCHANGED <<auRuns, activityAttempt>>
    /\ UNCHANGED nonAuditVars

\* the worker stops heartbeating: the execution is lost where it stands and
\* the activity is started again from scratch
AUHeartbeatMissed ==
    /\ aupc \in {"initialized", "running"}
    /\ aupc' = "idle"
    /\ currentLogger' = NoLogger
    /\ UNCHANGED <<auIndex, auRuns, activityAttempt, workflowLog, agentFiles>>
    /\ UNCHANGED nonAuditVars

NextAudit ==
    \/ AUInitialize
    \/ AUStartModule
    \/ \E success \in BOOLEAN : AUEndModule(success)
    \/ AUHeartbeatMissed

SpecAudit == Init /\ [][NextAudit]_vars

\* C29: when an activity is run again after a failure or a missed
\* heartbeat, each attempt writes its audit events to a file of its own: no
\* agents/<module>_attempt_<n>.jsonl file holds events of two attempts
AttemptFilesDistinct ==
    \A f \in AgentFileNames :
        \A i, j \in DOMAIN agentFiles[f] :
            agentFiles[f][i].writer = agentFiles[f][j].writer

IsPrefix(s, t) == Len(s) <= Len(t) /\ SubSeq(t, 1, Len(s)) = s

\* C30: workflow.log is append-only within a session: after every
\* operation the lines written earlier are still there, in order, as a
\* prefix of the file
WorkflowLogAppendOnly == [][IsPrefix(workflowLog, workflowLog')]_vars

(***************************************************************************)
(* SpecTester: one runCredentialTester call over several hosts             *)
(***************************************************************************)
\* a device: whether its address answers at all, and which credential of
\* the list it accepts (0: none)
TesterHosts == [reachable : BOOLEAN, validCred : 0..MaxCreds]

TesterResult(ip, cred, success, evidence) ==
    [ip |-> ip, credential |-> cred, success |-> success,
     evidence |-> evidence]
\* an error on its way out of a function
Thrown == TesterResult(0, 0, FALSE, "thrown")

\* testHttpAuth with its catch clause removed: the error of httpGet leaves
\* the function
TestHostAttemptUncaught(h, ip, cred) ==
    IF ~h.reachable
    THEN Thrown
    ELSE IF cred = h.validCred
         THEN TesterResult(ip, cred, TRUE, "granted")
         ELSE TesterResult(ip, cred, FALSE, "authentication failed")

\* testHttpAuth: httpGet throws on a transport error and the catch clause
\* turns it into a result
TestHostAttempt(h, ip, cred) ==
    IF ~h.reachable
    THEN TesterResult(ip, cred, FALSE, "Connection error")
    ELSE IF cred = h.validCred
         THEN TesterResult(ip, cred, TRUE, "granted")
         ELSE TesterResult(ip, cred, FALSE, "authentication failed")

\* testHost: the credentials in order until one succeeds; an error that
\* leaves an attempt leaves testHost
RECURSIVE TestHostLoop(_, _, _, _)
TestHostLoop(h, ip, cred, acc) ==
    IF cred > MaxCreds THEN [thrown |-> FALSE, results |-> acc]
    ELSE LET r == TestHostAttempt(h, ip, cred) IN
         IF r = Thrown THEN [thrown |-> TRUE, results |-> <<>>]
         ELSE IF r.success
              THEN [thrown |-> FALSE, results |-> Append(acc, r)]
              ELSE TestHostLoop(h, ip, cred + 1, Append(acc, r))

TesterTestHost(h, ip) == TestHostLoop(h, ip, 1, <<>>)

SuccessIps(rs) == {rs[k].ip : k \in {j \in DOMAIN rs : rs[j].success}}

\* runCredentialTester(targets, config, outputDir) up to the first await of
\* every worker of parallelLimit
RCCall ==
    /\ rcpc = "idle"
    /\ \E n \in 1..MaxTargets, cap \in 0..MaxCap :
        \E ts \in [1..n -> TesterHosts] :
            LET k == WorkerCount(cap, n) IN
            /\ rcTargets' = ts
            /\ rcWorkers' = [w \in 1..k |-> WorkerRound(w - 1, n)]
            /\ rcIndex' = k
            /\ rcSettled' = [i \in 1..n |-> "pending"]
    /\ allResults' = <<>>
    /\ hostsCompromised' = {}
    /\ rcpc' = "running"
    /\ UNCHANGED moduleResult
    /\ UNCHANGED nonTesterVars

\* the task a worker awaits settles: testHost returned and its results were
\* pushed, or it threw and the worker's catch stored the rejection
RCTaskSettles(w) ==
    /\ rcpc = "running"
    /\ w \in DOMAIN rcWorkers
    /\ rcWorkers[w].pc = "await"
    /\ LET i == rcWorkers[w].currentIndex + 1
           tested == TesterTestHost(rcTargets[i], i)
           rs == tested.results
           round == WorkerRound(rcIndex, Len(rcTargets)) IN
        /\ IF tested.thrown
           THEN /\ rcSettled' = [rcSettled EXCEPT ![i] = "rejected"]
                /\ UNCHANGED <<allResults, hostsCompromised>>
           ELSE /\ rcSettled' = [rcSettled EXCEPT ![i] = "fulfilled"]
                /\ allResults' = allResults \o rs
                /\ hostsCompromised' = hostsCompromised \cup SuccessIps(rs)
        /\ rcWorkers' = [rcWorkers EXCEPT ![w] = round]
        /\ rcIndex' = IF round.pc = "await" THEN rcIndex + 1 ELSE rcIndex
    /\ UNCHANGED <<rcpc, rcTargets, moduleResult>>
    /\ UNCHANGED nonTesterVars

\* await parallelLimit(...) returns; the module result is built and saved
\* as deliverables/credential_results.json (the write may fail)
RCReturn(saved) ==
    /\ rcpc = "running"
    /\ \A w \in DOMAIN rcWorkers : rcWorkers[w].pc = "done"
    /\ IF saved
       THEN /\ moduleResult' =
                [called |-> TRUE,
                 results |-> allResults,
                 totalAttempts |-> Len(allResults),
                 successfulLogins |->
                     Cardinality({k \in DOMAIN allResults :
                                     allResults[k].success}),
                 hostsCompromised |-> Cardinality(hostsCompromised)]
            /\ rcpc' = "returned"
       ELSE /\ moduleResult' = [called |-> TRUE, error |-> "writeFile"]
            /\ rcpc' = "rejected"
    /\ UNCHANGED <<rcTargets, rcIndex, rcWorkers, rcSettled, allResults,
                   hostsCompromised>>
    /\ UNCHANGED nonTesterVars

NextTester ==
    \/ RCCall
    \/ \E w \in 1..MaxTargets : RCTaskSettles(w)
    \/ \E saved \in BOOLEAN : RCReturn(saved)

SpecTester == Init /\ [][NextTester]_vars

\* the results recorded for one host, in order
ResultsOf(rs, ip) == SelectSeq(rs, LAMBDA r : r.ip = ip)

\* the attempts testHost makes on a device: up to the accepted credential
ExpectedAttempts(h) ==
    IF h.reachable /\ h.validCred > 0 THEN h.validCred ELSE MaxCreds

\* C31: a transport error on one host never propagates out of
\* runCredentialTester: no task is rejected and the call is not rejected by
\* a host's error; every attempt on the unreachable host is recorded with
\* success = false and an evidence string; and the value returned holds
\* the results of every host of the batch
HostErrorsContained ==
    /\ \A i \in DOMAIN rcSettled : rcSettled[i] # "rejected"
    /\ rcpc = "rejected" => moduleResult.error = "writeFile"
    /\ \A k \in DOMAIN allResults :
        ~rcTargets[allResults[k].ip].reachable =>
            /\ ~allResults[k].success
            /\ allResults[k].evidence = "Connection error"
    /\ (/\ rcpc = "returned"
        /\ \E i \in 1..rcIndex : ~rcTargets[i].reachable)
       => \A i \in DOMAIN rcTargets :
            Len(ResultsOf(moduleResult.results, i))
                = ExpectedAttempts(rcTargets[i])

\* a batch of three with an unreachable host first returned the failed
\* attempts of that host and the login found on another
UnreachableHostInBatchWitness ==
    /\ rcpc = "returned"
    /\ Len(rcTargets) = 3
    /\ ~rcTargets[1].reachable
    /\ rcTargets[2].reachable /\ rcTargets[2].validCred = 2
    /\ Len(ResultsOf(moduleResult.results, 1)) = MaxCreds
    /\ moduleResult.successfulLogins >= 1
    /\ moduleResult.hostsCompromised >= 1

(***************************************************************************)
(* SpecStale: SessionMutex.lock when a holder dies with the lock file in   *)
(* place. The lockers make a bounded number of lock() calls; a locker in   *)
(* its critical section may die, and then never calls its release function.*)
(***************************************************************************)
nonMutexStaleVars ==
    <<wfVars, flushVars, retryVars, queryVars, parallelVars, rateVars,
      credVars, fuzzVars, socketVars, digestVars, listVars, auditVars,
      testerVars,
      discoveryVars,
      diffVars,
      heartbeatVars>>

\* lock(sessionId) is called: const start = Date.now()
DLockCall(p) ==
    /\ mpc[p] = "idle"
    /\ lockCalls[p] < MaxLocks
    /\ lockCalls' = [lockCalls EXCEPT ![p] = @ + 1]
    /\ waited' = [waited EXCEPT ![p] = 0]
    /\ mpc' = [mpc EXCEPT ![p] = "try"]
    /\ UNCHANGED <<lockFile, sleepLeft, held, csOverrun, nonMutexStaleVars>>

\* the process of a holder ends inside the critical section: its lock file
\* stays
DHolderDies(p) ==
    /\ mpc[p] = "cs"
    /\ mpc' = [mpc EXCEPT ![p] = "dead"]
    /\ UNCHANGED <<lockFile, waited, sleepLeft, held, csOverrun, lockCalls,
                   nonMutexStaleVars>>

\* the steps of lock() in one process
DLockStep(p) ==
    \/ MTryCreate(p)
    \/ MTryExists(p)
    \/ MUnlinkStale(p)
    \/ MWake(p)

NextStale ==
    \/ MTick
    \/ \E p \in Lockers :
        \/ DLockCall(p)
        \/ DHolderDies(p)
        \/ DLockStep(p)
        \/ MUnlock(p)

SpecStale == Init /\ [][NextStale]_vars

\* time passes and every process that is inside lock() keeps running
FairSpecStale ==
    /\ SpecStale
    /\ WF_vars(MTick)
    /\ \A p \in Lockers : WF_vars(DLockStep(p))

InLock(p) == mpc[p] \in {"try", "sleep", "unlink"}

\* C32: SessionMutex.lock always eventually returns a release function,
\* whether or not the holder ever removes the lock file, and with several
\* waiters contending
LockEventuallyReturns ==
    \A p \in Lockers : InLock(p) ~> (mpc[p] = "cs")

\* the holder died with the lock file in place; a waiter removed the file
\* and holds the lock it created while another waiter is still in lock()
StaleLockTakenWitness ==
    \E p, q, r \in Lockers :
        /\ mpc[p] = "dead"
        /\ mpc[q] = "cs" /\ lockFile = q
        /\ InLock(r) /\ waited[r] > 0

(***************************************************************************)
(* SpecDiscovery: one runDiscovery call.  Every target has one port to     *)
(* scan; userPorts says that the user gave it (1 to 10 ports on a single   *)
(* host skip nmap), nmap what the external scan does, open whether a TCP   *)
(* connect to the port succeeds.                                           *)
(***************************************************************************)
TargetStrs == {"10.0.0.1", "10.0.0.0/24"}
ScanPort == 80
\* the address nmap reports in a range
AddressIn(str) == "10.0.0.1"

DiscoveryTargets ==
    {t \in [str : TargetStrs, userPorts : BOOLEAN,
            nmap : {"fails", "empty", "found"}, open : BOOLEAN] :
        t.nmap = "found" => t.open}

\* targetStr.includes('/')
IncludesSlash(str) == str = "10.0.0.0/24"

\* target.host && target.ports.length > 0 && target.ports.length <= 10
IsUserSpecifiedPorts(t) == ~IncludesSlash(t.str) /\ t.userPorts

DiscoveredHost(ip, service, via, i) ==
    [ip |-> ip, port |-> ScanPort, service |-> service, via |-> via,
     target |-> i]

\* nmapScan(targetStr, ports, outputDir): the open ports found, or an error
NmapScan(t, i) ==
    CASE t.nmap = "fails" -> [threw |-> TRUE, hosts |-> <<>>]
      [] t.nmap = "empty" -> [threw |-> FALSE, hosts |-> <<>>]
      [] OTHER ->
            [threw |-> FALSE,
             hosts |-> <<DiscoveredHost(AddressIn(t.str), "http", "nmap", i)>>]

\* a fallback that takes the target string for an address whatever it is
TcpConnectIpsAny(str) == <<str>>

\* const ips = target.includes('/') ? [] : [target]
TcpConnectIps(str) == IF IncludesSlash(str) THEN <<>> ELSE <<str>>

\* tcpConnectScan(target, ports): the connects made and the hosts found;
\* a connect that fails or times out is skipped
TcpConnectScan(t, i) ==
    LET ips == TcpConnectIps(t.str) IN
    [probed |-> {<<i, ips[k]>> : k \in DOMAIN ips},
     hosts |-> IF Len(ips) > 0 /\ t.open
               THEN <<DiscoveredHost(ips[1], "unknown", "tcp", i)>>
               ELSE <<>>]

HostKey(h) == <<h.ip, h.port>>

\* deduplicateHosts: the first host of every ip:port
DeduplicateHosts(hosts) ==
    SelectSeq([k \in DOMAIN hosts |->
                  [host |-> hosts[k],
                   first |-> \A j \in 1..(k - 1) :
                                 HostKey(hosts[j]) # HostKey(hosts[k])]],
              LAMBDA e : e.first)

\* runDiscovery(targets, outputDir) is called
DCall ==
    /\ dpc = "idle"
    /\ \E n \in 0..MaxScans : \E ts \in [1..n -> DiscoveryTargets] :
        dTargets' = ts
    /\ targetsScanned' = 0
    /\ allHosts' = <<>>
    /\ probes' = {}
    /\ dpc' = "loop"
    /\ UNCHANGED discovered
    /\ UNCHANGED nonDiscoveryVars

\* one round of for (const target of targets)
DScanTarget ==
    /\ dpc = "loop"
    /\ targetsScanned < Len(dTargets)
    /\ LET i == targetsScanned + 1
           t == dTargets[i]
           scan == NmapScan(t, i)
           tcp == TcpConnectScan(t, i)
       IN  /\ targetsScanned' = i
           /\ IF IsUserSpecifiedPorts(t)
              THEN /\ allHosts' = Append(allHosts,
                            DiscoveredHost(t.str, "http", "direct", i))
                   /\ UNCHANGED probes
              ELSE IF scan.threw
              THEN /\ allHosts' = allHosts \o tcp.hosts
                   /\ probes' = probes \cup tcp.probed
              ELSE IF Len(scan.hosts) = 0 /\ ~IncludesSlash(t.str)
              THEN /\ allHosts' = allHosts \o tcp.hosts
                   /\ probes' = probes \cup tcp.probed
              ELSE /\ allHosts' = allHosts \o scan.hosts
                   /\ UNCHANGED probes
    /\ UNCHANGED <<dpc, dTargets, discovered>>
    /\ UNCHANGED nonDiscoveryVars

\* the loop has ended: the result is built and saved as
\* deliverables/discovery_results.json (the write may fail)
DReturn(saved) ==
    /\ dpc = "loop"
    /\ targetsScanned = Len(dTargets)
    /\ IF saved
       THEN /\ discovered' =
                [called |-> TRUE,
                 hosts |-> DeduplicateHosts(allHosts),
                 targetsScanned |-> targetsScanned]
            /\ dpc' = "returned"
       ELSE /\ discovered' = [called |-> TRUE, error |-> "writeFile"]
            /\ dpc' = "rejected"
    /\ UNCHANGED <<dTargets, targetsScanned, allHosts, probes>>
    /\ UNCHANGED nonDiscoveryVars

NextDiscovery ==
    \/ DCall
    \/ DScanTarget
    \/ \E saved \in BOOLEAN : DReturn(saved)

SpecDiscovery == Init /\ [][NextDiscovery]_vars

Probed(i) == \E pr \in probes : pr[1] = i
FallbackHosts(i) ==
    {k \in DOMAIN allHosts :
        allHosts[k].target = i /\ allHosts[k].via = "tcp"}

\* C34: for every target that goes through the external scanner, the
\* TCP-connect fallback probes the target exactly when the scan failed or
\* returned no host and the target is a single host; for a CIDR target the
\* fallback probes no address and contributes no host; and a failed scan
\* does not end the run: every target is scanned and what was found for
\* the others is returned
FallbackOnlyForSingleHosts ==
    /\ \A i \in 1..targetsScanned :
        LET t == dTargets[i] IN
        ~IsUserSpecifiedPorts(t) =>
            /\ Probed(i) <=>
                 (t.nmap \in {"fails", "empty"} /\ ~IncludesSlash(t.str))
            /\ IncludesSlash(t.str) =>
                 ~Probed(i) /\ FallbackHosts(i) = {}
            /\ (Probed(i) /\ t.open) => FallbackHosts(i) # {}
    /\ dpc = "rejected" => discovered.error = "writeFile"
    /\ dpc = "returned" =>
        /\ discovered.targetsScanned = Len(dTargets)
        /\ \A i \in DOMAIN dTargets :
            (dTargets[i].nmap = "found" /\ ~IsUserSpecifiedPorts(dTargets[i]))
            => \E k \in DOMAIN discovered.hosts :
                   discovered.hosts[k].host.ip = AddressIn(dTargets[i].str)

\* the scan of a range failed and that of a single host found nothing; the
\* fallback probed the host only, found its open port, and the run returned
FailedRangeThenFallbackWitness ==
    /\ dpc = "returned"
    /\ Len(dTargets) = 2
    /\ IncludesSlash(dTargets[1].str) /\ dTargets[1].nmap = "fails"
    /\ ~IncludesSlash(dTargets[2].str) /\ dTargets[2].nmap = "empty"
    /\ ~dTargets[2].userPorts
    /\ ~Probed(1) /\ Probed(2)
    /\ Len(discovered.hosts) = 1

(***************************************************************************)
(* SpecDiff: isAuthenticatedResponseDifferent on every pair of responses   *)
(***************************************************************************)
\* bodies by their text, their length and the post-login markers in them
DiffBodies ==
    {b \in [text : {"a", "b"}, length : {0, 100, 105, 120},
            words : SUBSET {"welcome", "logout"}] :
        b.length = 0 => (b.words = {} /\ b.text = "a")}

\* getBaseline: the status of GET /, -1 when the request failed
BaselineResponses == [status : {-1, 200, 401, 403, 404}, body : DiffBodies]
AuthedResponses == [status : {200, 302, 401, 404}, body : DiffBodies]

\* isAuthenticatedResponseDifferent(baseline, authed)
DFCompare ==
    /\ dfResult = NoParams
    /\ \E baseline \in BaselineResponses, authed \in AuthedResponses :
        /\ dfBaseline' = baseline
        /\ dfAuthed' = authed
        /\ dfResult' =
               [called |-> TRUE,
                value |-> IsAuthenticatedResponseDifferent(baseline, authed)]
    /\ UNCHANGED nonDiffVars

NextDiff == DFCompare

SpecDiff == Init /\ [][NextDiff]_vars

\* the authed body has a post-login marker that the baseline lacks
HasMarkerBaselineLacks(baseline, authed) ==
    \E m \in AuthIndicators : m \in authed.body.words \ baseline.body.words

\* the rule list of the specification, applied in order
DifferentByRuleList(baseline, authed) ==
    LET sizeDiff == Abs(baseline.body.length - authed.body.length)
        maxSize == Max(Max(baseline.body.length, authed.body.length), 1)
    IN  CASE baseline.status \in {401, 403, -1}
                /\ Success2xx3xx(authed.status) -> TRUE
          [] baseline.status = authed.status
                /\ baseline.body = authed.body -> FALSE
          [] baseline.status = authed.status /\ 10 * sizeDiff < maxSize ->
                HasMarkerBaselineLacks(baseline, authed)
          [] baseline.status = authed.status -> TRUE
          [] Success2xx3xx(authed.status) /\ baseline.status >= 400 -> TRUE
          [] OTHER -> FALSE

\* C35: for every baseline and every credentialed response,
\* isAuthenticatedResponseDifferent returns what the rule list of the
\* specification gives when its rules are applied in order
DifferentFollowsRuleList ==
    dfResult # NoParams =>
        dfResult.value = DifferentByRuleList(dfBaseline, dfAuthed)

(***************************************************************************)
(* SpecHeartbeat: one execution of an activity function and the interval   *)
(* timer startHeartbeat arms for it.  All seven activities have the shape  *)
(* hb = startHeartbeat(..); audit = new AuditSession(..);                  *)
(* await audit.initialize(); try { .. } catch { .. } finally               *)
(* { clearInterval(hb) }.                                                  *)
(***************************************************************************)
\* clearInterval(hb)
ClearInterval(armed) == FALSE

\* the activity function is entered: const hb = startHeartbeat(name)
HBEnter(a) ==
    /\ hbpc = "idle"
    /\ hbActivity' = a
    /\ hbTimer' = TRUE
    /\ hbpc' = "initialize"
    /\ UNCHANGED <<hbBeats, lateBeats>>
    /\ UNCHANGED nonHeartbeatVars

\* await audit.initialize() returns, or throws (mkdirSync, the read of
\* session.json or the write of a log fails): the statement is outside
\* the try block and the error leaves the activity function
HBInitialize(ok) ==
    /\ hbpc = "initialize"
    /\ hbpc' = IF ok THEN "module" ELSE "ended-initialize-failed"
    /\ UNCHANGED <<hbActivity, hbTimer, hbBeats, lateBeats>>
    /\ UNCHANGED nonHeartbeatVars

\* the try block ends: the module returned (endModule(.., true), return)
\* or threw (catch: endModule(.., false), throw); finally clearInterval(hb)
HBModuleEnds(ok) ==
    /\ hbpc = "module"
    /\ hbTimer' = ClearInterval(hbTimer)
    /\ hbpc' = IF ok THEN "ended-returned" ELSE "ended-module-failed"
    /\ UNCHANGED <<hbActivity, hbBeats, lateBeats>>
    /\ UNCHANGED nonHeartbeatVars

HBEnded ==
    hbpc \in {"ended-returned", "ended-module-failed",
              "ended-initialize-failed"}

\* the interval fires: heartbeat({module, elapsedSeconds})
HBBeat ==
    /\ hbTimer
    /\ IF HBEnded
       THEN /\ lateBeats < MaxBeats
            /\ lateBeats' = lateBeats + 1
            /\ UNCHANGED hbBeats
       ELSE /\ hbBeats < MaxBeats
            /\ hbBeats' = hbBeats + 1
            /\ UNCHANGED lateBeats
    /\ UNCHANGED <<hbpc, hbActivity, hbTimer>>
    /\ UNCHANGED nonHeartbeatVars

NextHeartbeat ==
    \/ \E a \in Activities : HBEnter(a)
    \/ \E ok \in BOOLEAN : HBInitialize(ok)
    \/ \E ok \in BOOLEAN : HBModuleEnds(ok)
    \/ HBBeat

SpecHeartbeat == Init /\ [][NextHeartbeat]_vars

\* C37: in every activity the heartbeat timer started at entry is cleared
\* on every exit path (normal return, failure of the module, failure of
\* the audit initialization): no heartbeat is emitted once the activity
\* has ended
HeartbeatClearedOnEveryExit ==
    /\ HBEnded => ~hbTimer
    /\ lateBeats = 0

(***************************************************************************)
(* Properties of Spec                                                      *)
(***************************************************************************)
WfEnded == wfpc \in {"completed", "failed"}

SessionStatus == IF sessionFile = NoFile THEN "absent" ELSE sessionFile.status

\* the ModuleMetrics record of module m in a session.json content
FileModule(file, m) == IF file = NoFile THEN NoModule ELSE file.modules[m]

TestingProcessed ==
    /\ \A a \in TestingActivities : Settled(a)
    /\ wfpc # "awaitTesting"

\* the workflow local and the report input field of a testing branch
BranchLocal(a) ==
    CASE a = "credential-tester" -> credentialResult
      [] a = "cve-scanner" -> cveResult
      [] a = "protocol-fuzzer" -> protocolResult

BranchReported(a) ==
    CASE a = "credential-tester" -> reportInput.credentialResult
      [] a = "cve-scanner" -> reportInput.cveResult
      [] a = "protocol-fuzzer" -> reportInput.protocolResult

BranchZero(a) ==
    CASE a = "credential-tester" -> ZeroCredentialResult
      [] a = "cve-scanner" -> ZeroCveResult
      [] a = "protocol-fuzzer" -> ZeroProtocolResult

\* C1: when a workflow run has ended, whichever activities failed,
\* session.json holds a terminal session status, completed or failed, never
\* running. (Stated as the claim states it; the code leaves "running" behind
\* whenever the run fails, because nothing calls markFailed.)
WorkflowTerminality ==
    WfEnded => SessionStatus \in {"completed", "failed"}

\* C2: whatever the interleaving of the activities' initialize, startModule
\* and endModule calls, session.json holds, for every module started in the
\* session, the status that startModule or endModule flushed last for it.
\* (Stated as the claim states it; every initialize flushes an empty module
\* map over the file.)
SessionFileKeepsLatestStatus ==
    \A m \in Activities :
        lastWritten[m] # "none" =>
            FileModule(sessionFile, m).status = lastWritten[m]

\* C6: once a module's record in session.json has status completed or
\* failed, no later step changes or removes that record. (Stated as the
\* claim states it; a later initialize removes it and a retried attempt's
\* startModule replaces it.)
TerminalModuleImmutable ==
    [][\A m \in Activities :
        FileModule(sessionFile, m).status \in {"completed", "failed"} =>
            FileModule(sessionFile', m) = FileModule(sessionFile, m)]_vars

\* C7: once the three testing branches have settled and been processed,
\* each rejected branch has the zeroed result as its module result and is in
\* failedModules with status failed, each fulfilled branch's value is the
\* module result unchanged, the report activity receives exactly these
\* results, and the workflow is on its way to the report: it is awaiting
\* exploitation or has called the report activity.
TestingBranchesIsolated ==
    TestingProcessed =>
        /\ \A a \in TestingActivities :
            /\ act[a].pc = "rejected" =>
                /\ BranchLocal(a) = BranchZero(a)
                /\ InSeq(state.failedModules, a)
                /\ ~InSeq(state.completedModules, a)
                /\ state.moduleStatuses[a] = "failed"
            /\ act[a].pc = "resolved" =>
                /\ BranchLocal(a) = act[a].value
                /\ InSeq(state.completedModules, a)
                /\ state.moduleStatuses[a] = "completed"
            /\ Invoked("report") => BranchReported(a) = BranchLocal(a)
        /\ wfpc = "awaitExploitation" \/ Invoked("report")

\* C7 witness: the CVE branch rejected, the credential and fuzzer branches
\* fulfilled with non-zero results, and the report activity has been called
TestingBranchRejectedWitness ==
    /\ wfpc = "awaitReport"
    /\ act["cve-scanner"].pc = "rejected"
    /\ act["credential-tester"].pc = "resolved"
    /\ act["protocol-fuzzer"].pc = "resolved"
    /\ credentialResult.successfulLogins > 0
    /\ protocolResult.findingsCount > 0
    /\ reportInput.credentialResult = credentialResult

\* C8: when the discovery or the fingerprint activity has failed and the
\* workflow has stopped, session.json marks the session failed and no later
\* activity was started. (Stated as the claim states it; the workflow does
\* stop, but the session status stays running.)
EarlyFailureMarksSessionFailed ==
    /\ (wfpc = "failed" /\ act["discovery"].pc = "rejected") =>
        /\ SessionStatus = "failed"
        /\ \A a \in Activities \ {"discovery"} : ~Invoked(a)
    /\ (wfpc = "failed" /\ act["fingerprint"].pc = "rejected") =>
        /\ SessionStatus = "failed"
        /\ \A a \in Activities \ {"discovery", "fingerprint"} : ~Invoked(a)

EmptyDiscovery == discoveryResult = [hosts |-> 0]

EmptyShortcutTaken ==
    /\ Invoked("report")
    /\ reportInput = EmptyReportInput(discoveryResult)
    /\ \A a \in Activities \ {"discovery", "report"} : ~Invoked(a)

ReportAlwaysInvoked == WfEnded => Invoked("report")

\* C10 as amended: a workflow run that has ended has called the report
\* activity unless its discovery or its fingerprint activity failed, and
\* in those two cases it has not.
ReportInvokedUnlessEarlyFailure ==
    WfEnded =>
        (Invoked("report") <=>
            ~(act["discovery"].pc = "rejected" \/ act["fingerprint"].pc = "rejected"))

\* C10 witness: a run whose exploitation failed has ended with the report
\* activity called
ReportAfterFailedExploitationWitness ==
    /\ WfEnded
    /\ act["exploitation"].pc = "rejected"
    /\ Invoked("report")

\* what C11 asks of the moment the report activity starts, on the full path
ReportAfterTesting ==
    /\ act["fingerprint"].pc = "resolved"
    /\ \A a \in TestingActivities : Settled(a)
    /\ Invoked("exploitation") => Settled("exploitation")

PhasesInOrder ==
    /\ Invoked("fingerprint") => act["discovery"].pc = "resolved"
    /\ \A a \in TestingActivities :
        Invoked(a) => act["fingerprint"].pc = "resolved"

\* C11 as stated: the report activity has started only if discovery and
\* fingerprinting completed, the three testing branches settled and
\* exploitation, if started, settled; fingerprinting has started only if
\* discovery completed, and a testing branch only if fingerprinting did.
ReportStartsAfterAllPhases ==
    /\ Invoked("report") => (act["discovery"].pc = "resolved" /\ ReportAfterTesting)
    /\ PhasesInOrder

\* C11 as amended: the same, except that after a discovery without hosts
\* the report activity starts right after discovery completed, with no
\* fingerprinting, testing or exploitation started at all.
ReportStartsAfterPhasesOrShortcut ==
    /\ Invoked("report") =>
        /\ act["discovery"].pc = "resolved"
        /\ IF EmptyDiscovery
           THEN \A a \in Activities \ {"discovery", "report"} : ~Invoked(a)
           ELSE ReportAfterTesting
    /\ PhasesInOrder

\* C11 witness: the report activity started after exploitation ran and
\* settled
ReportAfterExploitationWitness ==
    /\ act["report"].pc = "initialize"
    /\ act["exploitation"].pc = "resolved"
    /\ \A a \in TestingActivities : Settled(a)
    /\ ~EmptyDiscovery

\* C12: once the testing branches are processed, the exploitation activity
\* has been started exactly when the CVE result reports at least one
\* vulnerability, which a rejected CVE branch never does, and it is never
\* started earlier; when exploitation has failed, its result is the zeroed
\* one and the report activity has been called with it.
ExploitationOnlyOnVulnerabilities ==
    /\ Invoked("exploitation") => TestingProcessed
    /\ TestingProcessed =>
        /\ Invoked("exploitation") <=> cveResult.vulnerabilitiesFound > 0
        /\ act["cve-scanner"].pc = "rejected" => ~Invoked("exploitation")
        /\ cveResult.vulnerabilitiesFound = 0 =>
            state.moduleStatuses["exploitation"] = "skipped"
    /\ (act["exploitation"].pc = "rejected" /\ wfpc # "awaitExploitation") =>
        /\ exploitationResult = ZeroExploitationResult
        /\ InSeq(state.failedModules, "exploitation")
        /\ Invoked("report")
        /\ reportInput.exploitationResult = ZeroExploitationResult

\* C12 witness: exploitation ran because the CVE scanner found a
\* vulnerability, failed, and the report activity is running with the
\* zeroed exploitation result
ExploitationZeroedWitness ==
    /\ wfpc = "awaitReport"
    /\ act["cve-scanner"].pc = "resolved"
    /\ act["exploitation"].pc = "rejected"
    /\ cveResult.vulnerabilitiesFound > 0
    /\ reportInput.exploitationResult = ZeroExploitationResult

\* C15: when the run has ended, every module whose activity call was
\* rejected is in failedModules of the record getProgress returns, on every
\* path of the workflow. (Stated as the claim states it; the report call of
\* the empty-discovery shortcut has no catch block that would list it.)
FailedModulesListed ==
    WfEnded =>
        \A a \in Activities :
            act[a].pc = "rejected" =>
                InSeq(GetProgress(state).failedModules.elems, a)

\* a sequence that holds no element twice
NoDuplicates(seq) ==
    \A i, j \in DOMAIN seq : seq[i] = seq[j] => i = j

\* C38: at every point of a run completedModules and failedModules are
\* disjoint and hold no module twice, and when the workflow returns
\* normally every module whose activity was invoked in the run is in
\* exactly one of the two lists. (Stated as the claim states it; the
\* empty-discovery shortcut invokes the report activity and lists it
\* nowhere.)
ModuleListsCoverInvoked ==
    /\ NoDuplicates(state.completedModules)
    /\ NoDuplicates(state.failedModules)
    /\ \A a \in Activities :
        ~(InSeq(state.completedModules, a) /\ InSeq(state.failedModules, a))
    /\ wfpc = "completed" =>
        \A a \in Activities :
            act[a].pc # "idle" =>
                (InSeq(state.completedModules, a)
                    \/ InSeq(state.failedModules, a))

====
